---- MODULE Spec2Model ----
(***************************************************************************)
(* Multiple-boundary edit distance of segeval                              *)
(* (segeval/similarity/distance/multipleboundary.py).                      *)
(*                                                                         *)
(* boundary_edit_distance(boundary_string_a, boundary_string_b, n_t) is    *)
(* modelled as a state machine: optional_set_edits, then the window scan   *)
(* of find_transpositions (one step per window and one per candidate),     *)
(* then additions_substitutions_sets once per difference record.           *)
(*                                                                         *)
(* Positions are 0-based as in the source: a boundary string is a function *)
(* from 0..len-1 to sets of integer labels.                                *)
(*                                                                         *)
(* The sets and dicts of the program are objects: a name or a container    *)
(* holds a reference to an object, and a method that changes an object is  *)
(* seen through every reference to it.  heap maps the id of each object to *)
(* what it holds; the arguments and the locals of the call are references  *)
(* (id_boundary_string_a, ...), and boundary_string_a, boundary_string_b,  *)
(* options_set and options_transp are what these names show when they are  *)
(* read: every step ends by reading them through the heap.                 *)
(***************************************************************************)
EXTENDS Integers, Sequences, FiniteSets, TLC

VARIABLES
    heap,               \* id -> object: the labels of a set, the items of a dict
    id_boundary_string_a, \* first argument of boundary_edit_distance: for each
                        \* position the id of its label set
    id_boundary_string_b, \* second argument, likewise
    n_t,                \* third argument: the maximum transposition span
    pc,                 \* position in boundary_edit_distance
    id_options_set,     \* id of the dict position -> Difference(sim, a_b, b_a),
                        \* which holds the ids of the three sets
    id_options_transp,  \* id of the dict position -> list of Transposition
                        \* (with the position the object of its type was
                        \* taken from)
    boundary_string_a,  \* the first argument as read: position -> labels
    boundary_string_b,  \* the second argument as read
    options_set,        \* the records as read: position ->
                        \* Difference(sim, a_b, b_a) of label sets
    options_transp,     \* the table as read
    transpositions,     \* list of accepted Transposition
    n_i,                \* loop variable of `for n_i in sorted(n_t)` (the span)
    i,                  \* loop variable of `for i in range(...)`
    t_p,                \* candidates of the current window still to visit
    todo,               \* records of options_set.values() still to visit
    additions,          \* list of Addition returned
    substitutions,      \* list of Substitution returned
    position_edits,     \* per record: (current_additions, current_substitutions)
    error,              \* exception that ended the call, or "none"
    peer,               \* the frame of a second call in progress, if any
    alone,              \* what the call returned when it ran alone, if it did
    similarity          \* what boundary_similarity computed from the result, if
                        \* it has

vars == << heap, id_boundary_string_a, id_boundary_string_b, n_t, pc,
           id_options_set, id_options_transp, boundary_string_a,
           boundary_string_b, options_set, options_transp, transpositions,
           n_i, i, t_p, todo, additions, substitutions, position_edits, error,
           peer, alone, similarity >>

(***************************************************************************)
(* What the names of the program refer to, read through the heap.          *)
(***************************************************************************)
\* The id of no object: the name is not bound yet.
None == 0

\* The boundary string a tuple of label-set ids shows in the heap h.
boundary_string(h, ids) == [p \in DOMAIN ids |-> h[ids[p]]]

\* The difference records the dict with the given id shows in the heap h:
\* for each position the labels its three sets hold.
records(h, mapping) ==
    IF mapping = None THEN << >>
    ELSE [p \in DOMAIN h[mapping] |->
             [sim |-> h[h[mapping][p].sim],
              a_b |-> h[h[mapping][p].a_b],
              b_a |-> h[h[mapping][p].b_a]]]

\* The claimed-transposition table the dict with the given id shows in the
\* heap h.
table(h, mapping) == IF mapping = None THEN << >> ELSE h[mapping]

\* The end of every step: the four names are read through the heap the
\* step has left.
Read ==
    /\ boundary_string_a' = boundary_string(heap', id_boundary_string_a')
    /\ boundary_string_b' = boundary_string(heap', id_boundary_string_b')
    /\ options_set' = records(heap', id_options_set')
    /\ options_transp' = table(heap', id_options_transp')

(***************************************************************************)
(* Bounds of the model.                                                    *)
(***************************************************************************)
\* longest boundary string drawn
MaxLen == 3
\* largest n_t drawn (n_t also ranges over the disabling values -1, 0, 1)
MaxNT == 3
\* labels 1..MaxLabel of the single-position inputs of SpecMatcher
MaxLabel == 6
\* largest symmetric difference of the single-position inputs of SpecMatcher
MaxDiff == 4
\* most labels the two boundary strings of Spec hold together
MaxOcc == 6
\* the weighting functions return multiples of 1/WeightDen
WeightDen == 2
\* most labels the two boundary strings of one call of SpecPair hold together
MaxPairOcc == 3
\* most labels the two boundary strings of SpecTermination hold together
MaxLiveOcc == 3

(***************************************************************************)
(* Program constants.                                                      *)
(***************************************************************************)
\* the default of n_t
DEFAULT_N_T == 2

(***************************************************************************)
(* Labels.  CPython keeps one object per integer in -5..256, so on these   *)
(* `x is y` coincides with x == y; larger equal integers are the same      *)
(* object only if the caller built them so.  The label 1 is in the cache,  *)
(* the label 300 is not.                                                   *)
(*                                                                         *)
(* A label that differs at a position occurs there on one side only, so    *)
(* the object of a candidate label is named by the position whose label    *)
(* set it was taken from.                                                  *)
(***************************************************************************)
Labels == {1, 300}
CachedInts == -5..256

\* The labels of the calls run in pairs.
PairLabels == {1}

\* `x is y` for two int objects.  x_obj and y_obj name the objects (for a
\* label, the position it was taken from); shared tells whether the caller
\* used one object for equal labels at different positions.
is(x, x_obj, y, y_obj, shared) ==
    /\ x = y
    /\ (x \in CachedInts \/ x_obj = y_obj \/ shared)

(***************************************************************************)
(* Python helpers.                                                         *)
(***************************************************************************)
len(s) == Cardinality(DOMAIN s)

abs(x) == IF x < 0 THEN -x ELSE x

Min2(x, y) == IF x <= y THEN x ELSE y

SetMin(S) == CHOOSE x \in S : \A y \in S : x <= y

\* sorted(S): the elements of a set of integers in ascending order.
RECURSIVE sorted(_)
sorted(S) == IF S = {} THEN << >>
             ELSE LET m == SetMin(S) IN << m >> \o sorted(S \ {m})

\* All orderings of a set, as a set of sequences.
RECURSIVE Orderings(_)
Orderings(S) ==
    IF S = {} THEN { << >> }
    ELSE UNION { { << x >> \o s : s \in Orderings(S \ {x}) } : x \in S }

(***************************************************************************)
(* Iterating a set.  The source fixes no order for `for x in some_set`;    *)
(* CPython visits the slots of the set's hash table in turn.  A table has  *)
(* 8, 16, 32, ... slots and more than 5/3 as many slots as entries.  An    *)
(* int x with abs(x) < 2^61 - 1 is put at its home slot                    *)
(* hash(x) & (slots - 1) when that slot is unused, and further along its   *)
(* probe sequence otherwise; it stays there when the entry that held its   *)
(* home slot is discarded, and a later entry can take the slot that was    *)
(* freed.  So the order of a set object depends on how it was built, not   *)
(* on its value alone.                                                     *)
(***************************************************************************)
\* hash(x) for an int with abs(x) < 2^61 - 1.
hash(x) == IF x = -1 THEN -2 ELSE x

\* hash(x) & mask in a table of the given number of slots, a power of two.
slot(x, slots) == hash(x) % slots

\* A table of the given number of slots can hold the set S.
table_holds(S, slots) == 5 * Cardinality(S) < 3 * (slots - 1)

\* Two labels of S have the same home slot in the table.
collides(S, slots) == \E x, y \in S : x # y /\ slot(x, slots) = slot(y, slots)

\* The sizes, from slots on, of the tables that can hold S, up to the first
\* from which on the home slots of the labels of S no longer change
\* (non-negative hashes in ascending order, then the negative ones).
RECURSIVE table_sizes(_, _)
table_sizes(S, slots) ==
    IF table_holds(S, slots)
    THEN IF \A x \in S : 2 * abs(hash(x)) < slots
         THEN {slots}
         ELSE {slots} \cup table_sizes(S, 2 * slots)
    ELSE table_sizes(S, 2 * slots)

\* LINEAR_PROBES of setobject.c: the slots looked at after slot i before the
\* probe sequence jumps, when the last of them is in the table.
LINEAR_PROBES == 9

\* perturb >>= PERTURB_SHIFT, the shift by 5 bits of the hash taken as an
\* unsigned 64 bit number, after `shifts` earlier shifts.  A negative hash
\* of less than 50 bits stands for itself plus 2^64: it stays congruent to
\* the unsigned value modulo the number of slots for ten shifts, and the
\* eleventh leaves 2^9 - 1.
perturb_shift(perturb, shifts) ==
    IF perturb >= 0 \/ shifts < 10 THEN perturb \div 32 ELSE 511

\* The slots of the list `run` that are not in the list `seen`, added to it.
RECURSIVE add_unseen(_, _)
add_unseen(seen, run) ==
    IF run = << >> THEN seen
    ELSE add_unseen(IF \E k \in DOMAIN seen : seen[k] = Head(run)
                    THEN seen
                    ELSE Append(seen, Head(run)),
                    Tail(run))

\* The loop of set_add_entry and set_insert_clean from slot `start` on: the first
\* n different slots it looks at, in turn, after those of `seen`.
RECURSIVE probes(_, _, _, _, _, _)
probes(start, perturb, shifts, slots, seen, n) ==
    LET run == IF start + LINEAR_PROBES <= slots - 1
               THEN [k \in 1..(LINEAR_PROBES + 1) |-> start + k - 1]
               ELSE << start >>
        looked == add_unseen(seen, run)
        shifted == perturb_shift(perturb, shifts)
    IN  IF Len(looked) >= n
        THEN SubSeq(looked, 1, n)
        ELSE probes((start * 5 + 1 + shifted) % slots, shifted, shifts + 1, slots, looked, n)

\* The first n different slots of the probe sequence of the label x.
probe_sequence(x, slots, n) == probes(slot(x, slots), hash(x), 0, slots, << >>, n)

\* The elements of S by ascending slot, for a table that has the label x
\* at slot layout[x]: the order of iteration of that table.
RECURSIVE slot_order(_, _)
slot_order(S, layout) ==
    IF S = {} THEN << >>
    ELSE LET m == CHOOSE x \in S : \A y \in S : layout[x] <= layout[y]
         IN  << m >> \o slot_order(S \ {m}, layout)

\* set_insert_clean for the labels of the list `order` in turn, into a
\* table that has no discarded entries: each label at the first slot of its
\* probe sequence that is unused.
RECURSIVE insert_clean(_, _, _)
insert_clean(layout, order, slots) ==
    IF order = << >> THEN layout
    ELSE LET x == Head(order)
             taken == { layout[y] : y \in DOMAIN layout }
             path == probe_sequence(x, slots, Cardinality(taken) + 1)
             at == CHOOSE k \in DOMAIN path :
                       path[k] \notin taken /\ \A j \in 1..(k - 1) : path[j] \in taken
         IN  insert_clean(layout @@ (x :> path[at]), Tail(order), slots)

\* The tables of the given size that hold the labels of S and were built
\* by inserting them, and nothing else, into an empty table: every label
\* at its home slot when no two have the same one, and what the order of
\* insertion gives otherwise.
built_tables(S, slots) ==
    IF collides(S, slots)
    THEN { insert_clean(<< >>, order, slots) : order \in Orderings(S) }
    ELSE { [x \in S |-> slot(x, slots)] }

\* Every way to give each label of `rest` a slot of its probe sequence that
\* no other label has, such that the slots used, with the slots that the
\* labels passed over (`passed`), are no more than n.
RECURSIVE placements(_, _, _, _, _)
placements(rest, layout, passed, paths, n) ==
    IF rest = {} THEN { layout }
    ELSE LET x == CHOOSE y \in rest : TRUE
             taken == { layout[y] : y \in DOMAIN layout }
             before(k) == { paths[x][j] : j \in 1..(k - 1) }
         IN  UNION { placements(rest \ {x}, layout @@ (x :> paths[x][k]),
                                passed \cup before(k), paths, n) :
                       k \in { j \in DOMAIN paths[x] :
                                 /\ paths[x][j] \notin taken
                                 /\ Cardinality(taken \cup passed \cup before(j + 1)) <= n } }

\* The tables of the given size that hold just the labels of S, none of
\* their slots marked as discarded, whatever was added and discarded
\* before: a slot once used does not become unused again, so the slots used
\* are those of the labels of S, and a label sits at a slot of its probe
\* sequence before which every slot is used.
held_tables(S, slots) ==
    LET n == Cardinality(S)
    IN  placements(S, << >>, {}, [x \in S |-> probe_sequence(x, slots, n)], n)

\* The orders in which a set of ints can be iterated when it was built
\* afresh by inserting the labels of S, and nothing else, into an empty
\* table, for every size the table can have.  A set of at most one element
\* has one order.
set_iteration_orders(S) ==
    IF Cardinality(S) <= 1
    THEN { sorted(S) }
    ELSE UNION { { slot_order(S, layout) : layout \in built_tables(S, slots) } :
                   slots \in table_sizes(S, 8) }

\* The orders in which `x - y` can be iterated, for a set object x and a
\* set y.  When len(x) >> 2 > len(y), CPython copies the table of x and
\* discards the labels of y from the copy: the labels left sit where they
\* sat in x, which the history of x decides (a label moved off its home
\* slot by an entry that has since gone, another label in the slot that was
\* freed).  Otherwise the result is built afresh from the labels left.
difference_iteration_orders(x, y) ==
    IF Cardinality(x \ y) <= 1
    THEN { sorted(x \ y) }
    ELSE IF Cardinality(x) \div 4 > Cardinality(y)
         THEN UNION { { slot_order(x \ y, layout) : layout \in held_tables(x, slots) } :
                        slots \in table_sizes(x, 8) }
         ELSE set_iteration_orders(x \ y)

\* The orders in which a set S of tuples can be iterated: the hash of a
\* tuple is not modelled, so any order.
tuple_set_iteration_orders(S) == Orderings(S)

SeqRemove(s, k) == [x \in 1..(Len(s) - 1) |-> IF x < k THEN s[x] ELSE s[x + 1]]

\* Mutant of SymDiff: `|` written for `^`.
SymDiffAsUnion(s, t) == s \cup t

\* s ^ t for Python sets.
SymDiff(s, t) == (s \ t) \cup (t \ s)

\* itertools.permutations(s): all orderings of s, in lexicographic order of
\* the positions of s.
RECURSIVE permutations(_)
RECURSIVE PermutationsFrom(_, _)
PermutationsFrom(s, k) ==
    IF k > Len(s) THEN << >>
    ELSE LET rest == permutations(SeqRemove(s, k))
         IN  [x \in 1..Len(rest) |-> << s[k] >> \o rest[x]]
             \o PermutationsFrom(s, k + 1)
permutations(s) == IF Len(s) = 0 THEN << << >> >> ELSE PermutationsFrom(s, 1)

\* set(zip(perm_a, perm_b)): zip stops at the shorter sequence.
zip(perm_a, perm_b) ==
    LET n == IF Len(perm_a) < Len(perm_b) THEN Len(perm_a) ELSE Len(perm_b)
    IN  { << perm_a[k], perm_b[k] >> : k \in 1..n }

\* sum(abs(a_i - b_i) for a_i, b_i in current_substitutions)
RECURSIVE current_delta(_)
current_delta(pairs) ==
    IF pairs = {} THEN 0
    ELSE LET p == CHOOSE q \in pairs : TRUE
         IN  abs(p[1] - p[2]) + current_delta(pairs \ {p})

\* Mutant of additions_substitutions: the division by 2 is left out.
additions_substitutions_unhalved(d, a, b) ==
    LET n_additions == IF Cardinality(a) >= Cardinality(b)
                       THEN Cardinality(a) - Cardinality(b)
                       ELSE Cardinality(b) - Cardinality(a)
    IN  << n_additions, [num |-> Cardinality(d) - n_additions, den |-> 1] >>

(***************************************************************************)
(* additions_substitutions: the counts.  `/` is true division, so the      *)
(* second component is kept as a fraction num/den.                         *)
(***************************************************************************)
additions_substitutions(d, a, b) ==
    LET n_additions == abs(Cardinality(a) - Cardinality(b))
    IN  << n_additions, [num |-> Cardinality(d) - n_additions, den |-> 2] >>

\* q > 0 for a fraction with positive denominator
FracPositive(q) == q.num > 0
\* q == k for a fraction and an integer
FracEquals(q, k) == q.num = k * q.den

\* Mutant of PairingStep: `<=` for `<`, a later pairing of equal cost
\* replaces the current one.
PairingStepKeepLast(best, perm_a, perm_b) ==
    LET current_substitutions == zip(perm_a, perm_b)
        cd == current_delta(current_substitutions)
    IN  IF best.delta_is_none \/ cd <= best.delta
        THEN [delta_is_none |-> FALSE, delta |-> cd,
              substitutions |-> current_substitutions]
        ELSE best

\* Mutant of PairingStep: only the first pairing is ever kept.
PairingStepKeepFirst(best, perm_a, perm_b) ==
    IF best.delta_is_none
    THEN [delta_is_none |-> FALSE, delta |-> 0,
          substitutions |-> { << perm_a[k], perm_b[k] >> :
                                k \in 1..(IF Len(perm_a) < Len(perm_b)
                                          THEN Len(perm_a) ELSE Len(perm_b)) }]
    ELSE best

(***************************************************************************)
(* additions_substitutions_sets: the double loop over permutations keeps   *)
(* the first pairing of strictly smallest delta.                           *)
(***************************************************************************)
\* One iteration of the inner loop body (lines 72-78).
PairingStep(best, perm_a, perm_b) ==
    LET current_substitutions == zip(perm_a, perm_b)
        cd == current_delta(current_substitutions)
    IN  IF best.delta_is_none \/ cd < best.delta
        THEN [delta_is_none |-> FALSE, delta |-> cd,
              substitutions |-> current_substitutions]
        ELSE best

\* The loops of lines 70-71: iterations lo..hi of the nested loops, numbered
\* in execution order (perm_a outer, perm_b inner), applied in that order
\* to best.
RECURSIVE PairingLoop(_, _, _, _, _)
PairingLoop(perms_a, perms_b, lo, hi, best) ==
    IF lo > hi THEN best
    ELSE IF lo = hi
    THEN PairingStep(best, perms_a[((lo - 1) \div Len(perms_b)) + 1],
                           perms_b[((lo - 1) % Len(perms_b)) + 1])
    ELSE LET mid == (lo + hi) \div 2
             first_half == PairingLoop(perms_a, perms_b, lo, mid, best)
         IN  \* delta is set by the first iteration, so the test only makes
             \* the first half be evaluated before the second is entered.
             IF first_half.delta_is_none THEN first_half
             ELSE PairingLoop(perms_a, perms_b, mid + 1, hi, first_half)

\* The value of `substitutions` after the loops of lines 68-78.
BestPairing(a, b) ==
    LET perms_a == permutations(sorted(a))
        perms_b == permutations(sorted(b))
    IN  PairingLoop(perms_a, perms_b, 1, Len(perms_a) * Len(perms_b),
                    [delta_is_none |-> TRUE, delta |-> 0, substitutions |-> {}])
            .substitutions

\* A variant that tags every Addition 'a', whichever set it came from.
AdditionListSideA(order, side) ==
    [k \in 1..Len(order) |-> [type |-> order[k], side |-> "a"]]

\* The Additions appended by one of the loops of lines 87-91 when it visits
\* the labels in the given order.
AdditionList(order, side) ==
    [k \in 1..Len(order) |-> [type |-> order[k], side |-> side]]

\* Mutant of collect_edits: the loop over b - set(substituted) (lines 90-91)
\* is left out.
collect_edits_from_a_only(d, a, b, subs) ==
    LET substituted == { p[1] : p \in subs } \cup { p[2] : p \in subs }
        additions_set == d \ substituted
    IN  { [added |-> AdditionList(order_a, "a"),
           substitutions |-> { [type_a |-> p[1], type_b |-> p[2]] : p \in subs },
           assert_ok |-> is(Len(order_a), "added", Cardinality(additions_set),
                            "additions", FALSE)] :
            order_a \in difference_iteration_orders(a, substituted) }

\* Lines 79-93 for the value subs that the loops left in `substitutions`:
\* what the function can return, one result for each order in which the
\* two sets of lines 87 and 90, `a - set(substituted)` and
\* `b - set(substituted)`, can be iterated.  assert_ok is the assertion of
\* line 92, `len(added) is len(additions)`: the two calls of len return two
\* int objects.
collect_edits(d, a, b, subs) ==
    LET substituted == { p[1] : p \in subs } \cup { p[2] : p \in subs }
        additions_set == d \ substituted
    IN  { [added |-> AdditionList(orders[1], "a") \o AdditionList(orders[2], "b"),
           substitutions |-> { [type_a |-> p[1], type_b |-> p[2]] : p \in subs },
           assert_ok |-> is(Len(orders[1]) + Len(orders[2]), "added",
                            Cardinality(additions_set), "additions", FALSE)] :
            orders \in difference_iteration_orders(a, substituted)
                          \X difference_iteration_orders(b, substituted) }

\* Lines 68-93: the loops run once, then their result is collected.  The
\* set of the results the call can return.
additions_substitutions_sets(d, a, b) ==
    UNION { collect_edits(d, a, b, subs) : subs \in {BestPairing(a, b)} }

(***************************************************************************)
(* optional_set_edits: zip stops at the shorter boundary string.           *)
(***************************************************************************)
Difference(a_i, b_i) ==
    [sim |-> SymDiff(a_i, b_i), a_b |-> a_i \ b_i, b_a |-> b_i \ a_i]

\* Mutant of optional_set_edits: the test `len(a) > 0` for `len(d) > 0`, no
\* record where only B holds a label A does not.
optional_set_edits_where_a_differs(bs_a, bs_b) ==
    LET zipped == (DOMAIN bs_a) \cap (DOMAIN bs_b)
        keys == { p \in zipped : Cardinality(bs_a[p] \ bs_b[p]) > 0 }
    IN  [p \in keys |-> Difference(bs_a[p], bs_b[p])]

\* Mutant of optional_set_edits: the test `len(d) > 0` is left out.
optional_set_edits_keeping_all(bs_a, bs_b) ==
    LET zipped == (DOMAIN bs_a) \cap (DOMAIN bs_b)
    IN  [p \in zipped |-> Difference(bs_a[p], bs_b[p])]

optional_set_edits(bs_a, bs_b) ==
    LET zipped == (DOMAIN bs_a) \cap (DOMAIN bs_b)
        keys == { p \in zipped : Cardinality(SymDiff(bs_a[p], bs_b[p])) > 0 }
    IN  [p \in keys |-> Difference(bs_a[p], bs_b[p])]

(***************************************************************************)
(* __has_substitutions__ and __overlaps_existing__.                        *)
(***************************************************************************)
has_substitutions(pi, pj, d, os) ==
    /\ pi \in DOMAIN os
    /\ d \in os[pi].sim
    /\ pj \in DOMAIN os
    /\ d \in os[pj].sim
    /\ FracPositive(additions_substitutions(os[pi].sim, os[pi].a_b, os[pi].b_a)[2])
    /\ FracPositive(additions_substitutions(os[pj].sim, os[pj].a_b, os[pj].b_a)[2])

\* check_position: some t in options_transp[position] has `t[2] is d`.
check_position(position, d, ot, shared) ==
    /\ position \in DOMAIN ot
    /\ \E k \in 1..Len(ot[position]) :
          is(ot[position][k].type, ot[position][k].type_obj, d.type, d.obj, shared)

overlaps_existing(pi, pj, d, ot, shared) ==
    check_position(pi, d, ot, shared) \/ check_position(pj, d, ot, shared)

(***************************************************************************)
(* find_transpositions: the window scan.                                   *)
(***************************************************************************)
\* x & y keeps the objects of y when len(y) <= len(x), else those of x
\* (CPython iterates over the smaller operand, the right one on a tie).
\* x and y are records [set, obj]: a set of labels and, for the candidate
\* label, the position its object was taken from.
intersection(x, y) ==
    [set |-> x.set \cap y.set,
     obj |-> IF Cardinality(y.set) <= Cardinality(x.set) THEN y.obj ELSE x.obj]

\* The position whose label set holds the object of label d in
\* diff_i & diff_j & diff_a & diff_b (line 161), for the window (pi, pj).
candidate_object(d, pi, pj, a_i, a_j, b_i, b_j) ==
    LET diff_i == [set |-> SymDiff(a_i, b_i), obj |-> pi]
        diff_j == [set |-> SymDiff(a_j, b_j), obj |-> pj]
        diff_a == [set |-> SymDiff(a_i, a_j), obj |-> IF d \in a_i THEN pi ELSE pj]
        diff_b == [set |-> SymDiff(b_i, b_j), obj |-> IF d \in b_i THEN pi ELSE pj]
    IN  intersection(intersection(intersection(diff_i, diff_j), diff_a), diff_b).obj

\* Mutant of potential_transpositions: t_p = diff_i & diff_j, the two
\* differences along the strings are left out.
potential_transpositions_across_only(pi, pj, a_i, a_j, b_i, b_j) ==
    LET diff_i == SymDiff(a_i, b_i)
        diff_j == SymDiff(a_j, b_j)
        found == diff_i \cap diff_j
    IN  { [k \in 1..Len(labels) |->
              [type |-> labels[k],
               obj |-> candidate_object(labels[k], pi, pj, a_i, a_j, b_i, b_j)]] :
            labels \in set_iteration_orders(found) }

\* t_p of lines 155-161 as the loop of line 164 can visit it: one sequence
\* for each order in which the set can be iterated, each label with the
\* position its object was taken from.  `&` builds its result afresh from
\* the common labels.
potential_transpositions(pi, pj, a_i, a_j, b_i, b_j) ==
    LET diff_i == SymDiff(a_i, b_i)
        diff_j == SymDiff(a_j, b_j)
        diff_a == SymDiff(a_i, a_j)
        diff_b == SymDiff(b_i, b_j)
        found == diff_i \cap diff_j \cap diff_a \cap diff_b
    IN  { [k \in 1..Len(labels) |->
              [type |-> labels[k],
               obj |-> candidate_object(labels[k], pi, pj, a_i, a_j, b_i, b_j)]] :
            labels \in set_iteration_orders(found) }

\* Mutant of IsWindow: range(2, n_t + 2), one span too many.
IsWindowSpanOffByOne(offset, idx) ==
    /\ offset + 1 >= 2
    /\ offset + 1 <= n_t + 1
    /\ idx >= 0
    /\ idx < len(boundary_string_a) - offset

\* Mutant of IsWindow: range(2, max(n_t, 2) + 1), n_t < 2 read as 2.
IsWindowClampedSpan(offset, idx) ==
    /\ offset + 1 >= 2
    /\ offset + 1 <= (IF n_t < 2 THEN 2 ELSE n_t)
    /\ idx >= 0
    /\ idx < len(boundary_string_a) - offset

\* Mutant of IsWindow: the window at index 0 is visited without the length
\* test.
IsWindowFirstAlways(offset, idx) ==
    /\ offset + 1 >= 2
    /\ offset + 1 <= n_t
    /\ idx >= 0
    /\ (idx = 0 \/ idx < len(boundary_string_a) - offset)

\* Whether (offset, idx) is a window of the two loops of lines 143-145:
\* offset + 1 in range(2, n_t + 1) and idx in range(0, len(a) - offset).
IsWindow(offset, idx) ==
    /\ offset + 1 >= 2
    /\ offset + 1 <= n_t
    /\ idx >= 0
    /\ idx < len(boundary_string_a) - offset

\* Mutant of NextWindow: the loops nested the other way round, every span
\* of a start index before the next start index.
NextWindowStartFirst(offset, idx) ==
    IF offset + 2 <= n_t /\ idx < len(boundary_string_a) - (offset + 1)
    THEN << offset + 1, idx >>
    ELSE << 1, idx + 1 >>

\* Mutant of NextWindow: after the last start index the same span is
\* scanned again.
NextWindowSameSpan(offset, idx) ==
    IF idx + 1 < len(boundary_string_a) - offset
    THEN << offset, idx + 1 >>
    ELSE << offset, 0 >>

\* The window after (offset, idx) in loop order.
NextWindow(offset, idx) ==
    IF idx + 1 < len(boundary_string_a) - offset
    THEN << offset, idx + 1 >>
    ELSE << offset + 1, 0 >>

\* Mutant of discard: the discard from the A-only set (lines 186 and 189) is
\* left out.
discardNotFromAOnly(h, record, d) ==
    [o \in DOMAIN h |-> IF o \in {record.sim, record.b_a} THEN h[o] \ {d} ELSE h[o]]

\* Mutant of discard: the discard from the B-only set (lines 187 and 190) is
\* left out.
discardNotFromBOnly(h, record, d) ==
    [o \in DOMAIN h |-> IF o \in {record.sim, record.a_b} THEN h[o] \ {d} ELSE h[o]]

\* Mutant of discard: the label is discarded from sim only.
discardSimOnly(h, record, d) ==
    [o \in DOMAIN h |-> IF o \in {record.sim} THEN h[o] \ {d} ELSE h[o]]

\* options_set[p][0..2].discard(d) for the record options_set[p] of three
\* set ids: the heap after the label is discarded from the three objects.
discard(h, record, d) ==
    [o \in DOMAIN h |->
        IF o \in {record.sim, record.a_b, record.b_a} THEN h[o] \ {d} ELSE h[o]]

\* Mutant of Difference_ids: `a = a_i` when a_i has nothing in common with
\* b_i, the copy left out.
Difference_ids_uncopied(h, a_i, b_i, first) ==
    [sim |-> first + 2,
     a_b |-> IF h[a_i] # {} /\ h[a_i] \cap h[b_i] = {} THEN a_i ELSE first,
     b_a |-> first + 1]

\* Lines 207-211: a = set(a_i - b_i), b = set(b_i - a_i), d = set(a_i ^ b_i)
\* are three new objects, built in this order, and the record holds them.
\* The ids of the sets of the record for the label sets with ids a_i and
\* b_i, when first is the id of the first of the three new objects.
Difference_ids(h, a_i, b_i, first) ==
    [sim |-> first + 2, a_b |-> first, b_a |-> first + 1]

\* The largest id in use.
last_id(h) ==
    IF DOMAIN h = {} THEN None
    ELSE CHOOSE o \in DOMAIN h : \A q \in DOMAIN h : q <= o

\* The heap with the objects of objs (a function from their ids) added or
\* replaced.
store(h, objs) ==
    [o \in (DOMAIN h) \cup (DOMAIN objs) |-> IF o \in DOMAIN objs THEN objs[o] ELSE h[o]]

\* The heap without the objects no id of keep refers to: an object nothing
\* refers to any more is freed.
free(h, keep) == [o \in (DOMAIN h) \cap keep |-> h[o]]

\* The number of records built before that of position p.
rank(p, keys) == Cardinality({ q \in keys : q < p })

\* Lines 204-212 and 141: the dict of difference records, the three sets of
\* each record of edits and the dict of claimed transpositions are new
\* objects: each is given an id no live object has, the ids after last.
\* What the call binds: the two dict ids, and the heap that holds the new
\* objects.
allocate(h, last, ids_a, ids_b, edits) ==
    LET keys == DOMAIN edits
        mapping == last + 1
        first(p) == last + 3 * rank(p, keys) + 2
        transp == last + 3 * Cardinality(keys) + 2
        sets == [o \in (mapping + 1)..(transp - 1) |->
                    LET p == CHOOSE q \in keys : rank(q, keys) = (o - mapping - 1) \div 3
                        field == (o - mapping - 1) % 3
                    IN  IF field = 0 THEN edits[p].a_b
                        ELSE IF field = 1 THEN edits[p].b_a
                        ELSE edits[p].sim]
        dicts == [o \in {mapping, transp} |->
                    IF o = mapping
                    THEN [p \in keys |-> Difference_ids(h, ids_a[p], ids_b[p], first(p))]
                    ELSE << >>]
    IN  [options_set |-> mapping,
         options_transp |-> transp,
         heap |-> store(store(h, sets), dicts)]

\* options_transp[p].append(t), creating the list first when p is new.
record_position(ot, p, t) ==
    IF p \in DOMAIN ot
    THEN [ot EXCEPT ![p] = Append(@, t)]
    ELSE [q \in (DOMAIN ot) \cup {p} |-> IF q = p THEN << t >> ELSE ot[q]]

(***************************************************************************)
(* Initial states: the arguments of one call of boundary_edit_distance.    *)
(***************************************************************************)
BoundaryStrings(n, labels) == [0..(n - 1) -> SUBSET labels]

NTValues == -1..MaxNT

\* The number of labels a boundary string holds over positions 0..(n - 1).
RECURSIVE LabelCount(_, _)
LabelCount(bs, n) ==
    IF n = 0 THEN 0 ELSE LabelCount(bs, n - 1) + Cardinality(bs[n - 1])

\* The arguments of a call: every position of either boundary string has a
\* label-set object of its own.
argument_objects(a, b) ==
    [o \in 1..(len(a) + len(b)) |-> IF o <= len(a) THEN a[o - 1] ELSE b[o - len(a) - 1]]

Arguments(a, b) ==
    /\ heap = argument_objects(a, b)
    /\ id_boundary_string_a = [p \in DOMAIN a |-> p + 1]
    /\ id_boundary_string_b = [p \in DOMAIN b |-> len(a) + p + 1]
    /\ boundary_string_a = boundary_string(heap, id_boundary_string_a)
    /\ boundary_string_b = boundary_string(heap, id_boundary_string_b)

Fresh ==
    /\ pc = "start"
    /\ id_options_set = None
    /\ id_options_transp = None
    /\ options_set = records(heap, id_options_set)
    /\ options_transp = table(heap, id_options_transp)
    /\ transpositions = << >>
    /\ n_i = 0
    /\ i = 0
    /\ t_p = << >>
    /\ todo = << >>
    /\ additions = << >>
    /\ substitutions = << >>
    /\ position_edits = << >>
    /\ error = "none"

\* One call at a time: no second call is in progress.
Single ==
    /\ peer = << >>
    /\ alone = << >>
    /\ similarity = << >>

\* Two boundary strings of equal length.
Init ==
    /\ \E n \in 0..MaxLen :
          \E a \in BoundaryStrings(n, Labels), b \in BoundaryStrings(n, Labels) :
             /\ LabelCount(a, n) + LabelCount(b, n) <= MaxOcc
             /\ Arguments(a, b)
    /\ n_t \in NTValues
    /\ Fresh
    /\ Single

\* Two boundary strings of different lengths.
InitMismatch ==
    /\ \E n \in 0..MaxLen, m \in 0..MaxLen :
          /\ n # m
          /\ \E a \in BoundaryStrings(n, Labels), b \in BoundaryStrings(m, Labels) :
                Arguments(a, b)
    /\ n_t \in NTValues
    /\ Fresh
    /\ Single

\* Three labels, two of them cached, the default n_t, and strings of
\* DEFAULT_N_T + 1 positions: the shortest on which two windows of span n_t
\* overlap.
InitThreeLabels ==
    /\ \E a \in BoundaryStrings(DEFAULT_N_T + 1, Labels \cup {2}),
          b \in BoundaryStrings(DEFAULT_N_T + 1, Labels \cup {2}) :
          /\ LabelCount(a, DEFAULT_N_T + 1) + LabelCount(b, DEFAULT_N_T + 1) <= MaxOcc
          /\ Arguments(a, b)
    /\ n_t = DEFAULT_N_T
    /\ Fresh
    /\ Single

\* One position, labels 1..MaxLabel, the default n_t: the call reduces to
\* one call of additions_substitutions_sets on (A[0] ^ B[0], A[0] - B[0],
\* B[0] - A[0]).
InitMatcher ==
    /\ \E a \in BoundaryStrings(1, 1..MaxLabel), b \in BoundaryStrings(1, 1..MaxLabel) :
          /\ Cardinality(SymDiff(a[0], b[0])) <= MaxDiff
          /\ Arguments(a, b)
    /\ n_t = 2
    /\ Fresh
    /\ Single

(***************************************************************************)
(* Actions.                                                                *)
(***************************************************************************)
\* Lines 241-243 and 141-142: n_t becomes range(2, n_t + 1), the difference
\* records are extracted into new objects, find_transpositions starts with
\* a new, empty table and an empty list.
Call ==
    /\ pc = "start"
    /\ pc' = "find_transpositions"
    /\ \E edits \in {optional_set_edits(boundary_string_a, boundary_string_b)},
          last \in {last_id(heap)} :
          \E new \in {allocate(heap, last, id_boundary_string_a,
                                id_boundary_string_b, edits)} :
             /\ heap' = new.heap
             /\ id_options_set' = new.options_set
             /\ id_options_transp' = new.options_transp
    /\ transpositions' = << >>
    /\ n_i' = 1
    /\ i' = 0
    /\ UNCHANGED << id_boundary_string_a, id_boundary_string_b, n_t, t_p, todo,
                    additions, substitutions, position_edits, error,
                    peer, alone, similarity >>
    /\ Read

\* Lines 145-161: open the window (i, i + n_i).  Indexing boundary_string_b
\* beyond its end raises IndexError.  A window without candidates is left
\* at once.
SelectWindow ==
    /\ pc = "find_transpositions"
    /\ t_p = << >>
    /\ IsWindow(n_i, i)
    /\ LET j == i + n_i
       IN  IF i \notin DOMAIN boundary_string_b \/ j \notin DOMAIN boundary_string_b
           THEN /\ pc' = "raised"
                /\ error' = "IndexError"
                /\ UNCHANGED << t_p, n_i, i >>
           ELSE \E cands \in potential_transpositions(i, j,
                                 boundary_string_a[i], boundary_string_a[j],
                                 boundary_string_b[i], boundary_string_b[j]) :
                    /\ t_p' = cands
                    /\ IF cands = << >>
                       THEN /\ n_i' = NextWindow(n_i, i)[1]
                            /\ i' = NextWindow(n_i, i)[2]
                       ELSE UNCHANGED << n_i, i >>
                    /\ UNCHANGED << pc, error >>
    /\ UNCHANGED << heap, id_boundary_string_a, id_boundary_string_b, n_t,
                    id_options_set, id_options_transp, transpositions, todo,
                    additions, substitutions, position_edits,
                    peer, alone, similarity >>
    /\ Read

\* The loop variables after the head of t_p has been visited.
LeaveCandidate ==
    /\ t_p' = Tail(t_p)
    /\ IF Tail(t_p) = << >>
       THEN /\ n_i' = NextWindow(n_i, i)[1]
            /\ i' = NextWindow(n_i, i)[2]
       ELSE UNCHANGED << n_i, i >>

\* Lines 164-190, condition true: the candidate is appended, both positions
\* are recorded in the table and the label is discarded from the sets of
\* both records.  KeyError when a position has no record: at line 185 when i
\* has none, at line 188, after the discards at i, when only j has none.
AcceptTransposition ==
    /\ pc = "find_transpositions"
    /\ t_p # << >>
    /\ LET d == Head(t_p)
           j == i + n_i
           option_transp == [start |-> i, end |-> j, type |-> d.type]
           stored == [start |-> i, end |-> j, type |-> d.type, type_obj |-> d.obj]
       IN  /\ \E shared \in BOOLEAN :
                 /\ ~ overlaps_existing(i, j, d, options_transp, shared)
                 /\ ~ has_substitutions(i, j, d.type, options_set)
           /\ transpositions' = Append(transpositions, option_transp)
           /\ LET recorded ==
                     store(heap, [o \in {id_options_transp} |->
                                    record_position(
                                        record_position(options_transp, i, stored),
                                        j, stored)])
                  mapping == heap[id_options_set]
              IN  IF i \in DOMAIN mapping /\ j \in DOMAIN mapping
                  THEN /\ heap' = discard(discard(recorded, mapping[i], d.type),
                                          mapping[j], d.type)
                       /\ LeaveCandidate
                       /\ UNCHANGED << pc, error >>
                  ELSE /\ pc' = "raised"
                       /\ error' = "KeyError"
                       /\ heap' = IF i \in DOMAIN mapping
                                  THEN discard(recorded, mapping[i], d.type)
                                  ELSE recorded
                       /\ UNCHANGED << t_p, n_i, i >>
    /\ UNCHANGED << id_boundary_string_a, id_boundary_string_b, n_t,
                    id_options_set, id_options_transp, todo, additions,
                    substitutions, position_edits,
                    peer, alone, similarity >>
    /\ Read

\* Lines 164-171, condition false: the candidate is skipped.
RejectTransposition ==
    /\ pc = "find_transpositions"
    /\ t_p # << >>
    /\ LET d == Head(t_p)
           j == i + n_i
       IN  \E shared \in BOOLEAN :
              \/ overlaps_existing(i, j, d, options_transp, shared)
              \/ has_substitutions(i, j, d.type, options_set)
    /\ LeaveCandidate
    /\ UNCHANGED << heap, id_boundary_string_a, id_boundary_string_b, n_t, pc,
                    id_options_set, id_options_transp, transpositions, todo,
                    additions, substitutions, position_edits, error,
                    peer, alone, similarity >>
    /\ Read

\* Lines 192 and 249-251: the scan is over; the records are visited in the
\* insertion order of the dict, which is ascending position.
FinishTranspositions ==
    /\ pc = "find_transpositions"
    /\ t_p = << >>
    /\ ~ IsWindow(n_i, i)
    /\ pc' = "additions_substitutions"
    /\ todo' = sorted(DOMAIN options_set)
    /\ additions' = << >>
    /\ substitutions' = << >>
    /\ UNCHANGED << heap, id_boundary_string_a, id_boundary_string_b, n_t,
                    id_options_set, id_options_transp, transpositions, n_i, i,
                    t_p, position_edits, error,
                    peer, alone, similarity >>
    /\ Read

\* Lines 251-254: one record.  Line 254 extends `substitutions` by the set
\* of Substitution tuples the record yielded, in the order of its iteration.
SubstitutionStep ==
    /\ pc = "additions_substitutions"
    /\ todo # << >>
    /\ LET p == Head(todo)
           option == options_set[p]
       IN  \E r \in additions_substitutions_sets(option.sim, option.a_b, option.b_a) :
           IF r.assert_ok
           THEN /\ additions' = additions \o r.added
                /\ \E extension \in tuple_set_iteration_orders(r.substitutions) :
                      substitutions' = substitutions \o extension
                /\ position_edits' =
                      [q \in (DOMAIN position_edits) \cup {p} |->
                          IF q = p
                          THEN [added |-> r.added, substitutions |-> r.substitutions]
                          ELSE position_edits[q]]
                /\ todo' = Tail(todo)
                /\ UNCHANGED << pc, error >>
           ELSE /\ pc' = "raised"
                /\ error' = "AssertionError"
                /\ UNCHANGED << additions, substitutions, position_edits, todo >>
    /\ UNCHANGED << heap, id_boundary_string_a, id_boundary_string_b, n_t,
                    id_options_set, id_options_transp, transpositions, n_i, i,
                    t_p, peer, alone, similarity >>
    /\ Read

\* Line 256.
Return ==
    /\ pc = "additions_substitutions"
    /\ todo = << >>
    /\ pc' = "done"
    /\ UNCHANGED << heap, id_boundary_string_a, id_boundary_string_b, n_t,
                    id_options_set, id_options_transp, transpositions, n_i, i,
                    t_p, todo, additions, substitutions, position_edits, error,
                    peer, alone, similarity >>
    /\ Read

Next ==
    \/ Call
    \/ SelectWindow
    \/ AcceptTransposition
    \/ RejectTransposition
    \/ FinishTranspositions
    \/ SubstitutionStep
    \/ Return

\* The steps a single-position call can take.
NextMatcher ==
    \/ Call
    \/ FinishTranspositions
    \/ SubstitutionStep
    \/ Return

Spec == Init /\ [][Next]_vars

SpecMismatch == InitMismatch /\ [][Next]_vars

SpecMatcher == InitMatcher /\ [][NextMatcher]_vars

SpecThreeLabels == InitThreeLabels /\ [][Next]_vars

\* One call run to its end: the code is synchronous and single-threaded, so
\* a step that can be taken is taken.  Strings of up to DEFAULT_N_T + 1
\* positions, the shortest on which two windows of span n_t overlap.
InitTermination ==
    /\ \E n \in 0..(DEFAULT_N_T + 1) :
          \E a \in BoundaryStrings(n, Labels), b \in BoundaryStrings(n, Labels) :
             /\ LabelCount(a, n) + LabelCount(b, n) <= MaxLiveOcc
             /\ Arguments(a, b)
    /\ n_t \in NTValues
    /\ Fresh
    /\ Single

SpecTermination == InitTermination /\ [][Next]_vars /\ WF_vars(Next)

(***************************************************************************)
(* Two calls in progress.  Every name the call binds is a local of         *)
(* boundary_edit_distance, find_transpositions or optional_set_edits: the  *)
(* variables above but heap are the frame of the call that is running,     *)
(* peer is the frame of the one that is not.  The heap is common to both:  *)
(* whatever one call does to an object the other has a reference to, the   *)
(* other sees.                                                             *)
(***************************************************************************)
\* The frame of the running call.
Frame ==
    [id_boundary_string_a |-> id_boundary_string_a,
     id_boundary_string_b |-> id_boundary_string_b,
     n_t |-> n_t, pc |-> pc, id_options_set |-> id_options_set,
     id_options_transp |-> id_options_transp, transpositions |-> transpositions,
     n_i |-> n_i, i |-> i, t_p |-> t_p, todo |-> todo,
     additions |-> additions, substitutions |-> substitutions,
     position_edits |-> position_edits, error |-> error]

\* What a call hands back: the three lists, or the exception.
Result(f) ==
    [additions |-> f.additions, substitutions |-> f.substitutions,
     transpositions |-> f.transpositions, error |-> f.error]

\* The frame of a call about to start on the boundary strings with the
\* given ids and n.
FreshFrame(ids_a, ids_b, n) ==
    [id_boundary_string_a |-> ids_a, id_boundary_string_b |-> ids_b, n_t |-> n,
     pc |-> "start", id_options_set |-> None, id_options_transp |-> None,
     transpositions |-> << >>, n_i |-> 0, i |-> 0, t_p |-> << >>,
     todo |-> << >>, additions |-> << >>, substitutions |-> << >>,
     position_edits |-> << >>, error |-> "none"]

\* The ids the elements of a tuple of ids are.
ids_of(ids) == { ids[p] : p \in DOMAIN ids }

\* The inputs of the calls run in pairs: equal-length strings of up to
\* DEFAULT_N_T + 1 positions (the shortest on which two windows of span n_t
\* overlap) over PairLabels, which CPython caches, holding at most
\* MaxPairOcc labels.
PairInputs ==
    UNION { { << a, b >> \in BoundaryStrings(n, PairLabels) \X BoundaryStrings(n, PairLabels) :
                LabelCount(a, n) + LabelCount(b, n) <= MaxPairOcc } :
            n \in 0..(DEFAULT_N_T + 1) }

\* Mutant of Switch: options_transp is a name of the module, bound to the
\* table of the call that started last, not a local of the call.
SwitchSharedTable ==
    /\ peer # << >>
    /\ peer' = << Frame @@ [first |-> ~ peer[1].first] >>
    /\ id_boundary_string_a' = peer[1].id_boundary_string_a
    /\ id_boundary_string_b' = peer[1].id_boundary_string_b
    /\ n_t' = peer[1].n_t
    /\ pc' = peer[1].pc
    /\ id_options_set' = peer[1].id_options_set
    /\ transpositions' = peer[1].transpositions
    /\ n_i' = peer[1].n_i
    /\ i' = peer[1].i
    /\ t_p' = peer[1].t_p
    /\ todo' = peer[1].todo
    /\ additions' = peer[1].additions
    /\ substitutions' = peer[1].substitutions
    /\ position_edits' = peer[1].position_edits
    /\ error' = peer[1].error
    /\ UNCHANGED << heap, id_options_transp, alone, similarity >>
    /\ Read

\* The running call is suspended and the other one resumed: the interpreter
\* switches threads between two steps.  The locals of the two calls change
\* places, the heap stays.  peer[1].first tells whether the suspended call
\* is the first of the two.
Switch ==
    /\ peer # << >>
    /\ peer' = << Frame @@ [first |-> ~ peer[1].first] >>
    /\ id_boundary_string_a' = peer[1].id_boundary_string_a
    /\ id_boundary_string_b' = peer[1].id_boundary_string_b
    /\ n_t' = peer[1].n_t
    /\ pc' = peer[1].pc
    /\ id_options_set' = peer[1].id_options_set
    /\ id_options_transp' = peer[1].id_options_transp
    /\ transpositions' = peer[1].transpositions
    /\ n_i' = peer[1].n_i
    /\ i' = peer[1].i
    /\ t_p' = peer[1].t_p
    /\ todo' = peer[1].todo
    /\ additions' = peer[1].additions
    /\ substitutions' = peer[1].substitutions
    /\ position_edits' = peer[1].position_edits
    /\ error' = peer[1].error
    /\ UNCHANGED << heap, alone, similarity >>
    /\ Read

\* The locals of a call about to start; the objects of the call that ended
\* are freed with its frame, the arguments stay.
StartCall ==
    /\ pc' = "start"
    /\ id_options_set' = None
    /\ id_options_transp' = None
    /\ transpositions' = << >>
    /\ n_i' = 0
    /\ i' = 0
    /\ t_p' = << >>
    /\ todo' = << >>
    /\ additions' = << >>
    /\ substitutions' = << >>
    /\ position_edits' = << >>
    /\ error' = "none"

\* The arguments of the running call, the only objects that outlive it.
argument_ids == ids_of(id_boundary_string_a) \cup ids_of(id_boundary_string_b)

\* The call that ran alone has returned: its result is kept, the same
\* objects are passed to a new call, and a second call is started beside
\* it, on boundary strings of its own or, for its first argument, on the
\* very boundary string the first call is given (same_a).
CallAgain ==
    /\ pc \in {"done", "raised"}
    /\ peer = << >>
    /\ alone = << >>
    /\ alone' = << Result(Frame) >>
    /\ \E other \in PairInputs, same_a \in BOOLEAN :
          /\ same_a => other[1] = boundary_string_a
          /\ LET kept == free(heap, argument_ids)
                 last == last_id(kept)
                 new_a == IF same_a THEN << >> ELSE other[1]
                 ids_a == IF same_a THEN id_boundary_string_a
                          ELSE [p \in DOMAIN other[1] |-> last + p + 1]
                 ids_b == [p \in DOMAIN other[2] |-> last + len(new_a) + p + 1]
             IN  /\ heap' = store(kept,
                                  [o \in (last + 1)..(last + len(new_a) + len(other[2])) |->
                                      IF o <= last + len(new_a)
                                      THEN other[1][o - last - 1]
                                      ELSE other[2][o - last - len(new_a) - 1]])
                 /\ peer' = << FreshFrame(ids_a, ids_b, n_t) @@ [first |-> FALSE] >>
    /\ StartCall
    /\ UNCHANGED << id_boundary_string_a, id_boundary_string_b, n_t, similarity >>
    /\ Read

\* A call on a pair input with the default n_t, about to run alone.
InitPair ==
    /\ \E input \in PairInputs : Arguments(input[1], input[2])
    /\ n_t = DEFAULT_N_T
    /\ Fresh
    /\ Single

NextPair ==
    \/ Next
    \/ CallAgain
    \/ Switch

SpecPair == InitPair /\ [][NextPair]_vars

(***************************************************************************)
(* Two calls in a row on related arguments: the first has returned, its    *)
(* result is kept in alone, and the second starts from a fresh frame.      *)
(***************************************************************************)
\* The frame of the running call is replaced by that of a call about to
\* start; alone keeps what the call that ended handed back.
StartSecondCall ==
    /\ pc \in {"done", "raised"}
    /\ peer = << >>
    /\ alone = << >>
    /\ similarity = << >>
    /\ alone' = << Result(Frame) >>
    /\ heap' = free(heap, argument_ids)
    /\ StartCall
    /\ UNCHANGED << peer, similarity >>

\* The same boundary strings are compared again with a larger n_t.
CallWithLongerSpan ==
    /\ StartSecondCall
    /\ \E longer \in (n_t + 1)..MaxNT : n_t' = longer
    /\ UNCHANGED << id_boundary_string_a, id_boundary_string_b >>
    /\ Read

NextLongerSpan ==
    \/ Next
    \/ CallWithLongerSpan

SpecLongerSpan == Init /\ [][NextLongerSpan]_vars

\* The same boundary strings are compared again the other way round.
CallSwapped ==
    /\ StartSecondCall
    /\ id_boundary_string_a' = id_boundary_string_b
    /\ id_boundary_string_b' = id_boundary_string_a
    /\ UNCHANGED n_t
    /\ Read

NextSwapped ==
    \/ Next
    \/ CallSwapped

SpecSwapped == Init /\ [][NextSwapped]_vars

(***************************************************************************)
(* boundary_similarity (segeval/similarity/Boundary.py), called with       *)
(* convert_to_boundary_strings=False so that its arguments are the two     *)
(* boundary strings.  The three weighting functions are arguments: each    *)
(* returns a multiple of 1/WeightDen, and count_edits is kept as the       *)
(* integer count_edits * WeightDen.                                        *)
(***************************************************************************)
\* The matches of lines 55-57: labels held on both sides, over the positions
\* zip(bs_a, bs_b) yields, which are 0..(n - 1).
RECURSIVE matches_upto(_, _, _)
matches_upto(bs_a, bs_b, n) ==
    IF n = 0 THEN 0
    ELSE matches_upto(bs_a, bs_b, n - 1)
         + Cardinality(bs_a[n - 1] \cap bs_b[n - 1])

Matches(bs_a, bs_b) ==
    matches_upto(bs_a, bs_b, Min2(len(bs_a), len(bs_b)))

\* numerator / denominator: a fraction, or ZeroDivisionError.
TrueDivide(numerator, denominator) ==
    IF denominator.num = 0
    THEN [error |-> "ZeroDivisionError", value |-> [num |-> 0, den |-> 1]]
    ELSE [error |-> "none",
          value |-> [num |-> numerator.num * denominator.den,
                     den |-> numerator.den * denominator.num]]

\* Mutant of boundary_similarity: matches is left out of the denominator.
boundary_similarity_without_matches(matches, count_edits, n_additions, n_substitutions, n_transpositions) ==
    LET count_unweighted == n_additions + n_substitutions + n_transpositions
        denominator == count_unweighted
        numerator == [num |-> denominator * WeightDen - count_edits,
                      den |-> WeightDen]
        quotient == TrueDivide(numerator, [num |-> denominator, den |-> 1])
    IN  [matches |-> matches,
         count_edits |-> count_edits,
         denominator |-> denominator,
         numerator |-> numerator,
         divided |-> denominator > 0,
         score |-> IF denominator > 0 THEN quotient.value
                   ELSE [num |-> 1, den |-> 1],
         error |-> IF denominator > 0 THEN quotient.error ELSE "none"]

\* Mutant of boundary_similarity: `denominator >= 0` for `denominator > 0`.
boundary_similarity_dividing_by_zero(matches, count_edits, n_additions, n_substitutions, n_transpositions) ==
    LET count_unweighted == n_additions + n_substitutions + n_transpositions
        denominator == count_unweighted + matches
        numerator == [num |-> denominator * WeightDen - count_edits,
                      den |-> WeightDen]
        quotient == TrueDivide(numerator, [num |-> denominator, den |-> 1])
    IN  [matches |-> matches,
         count_edits |-> count_edits,
         denominator |-> denominator,
         numerator |-> numerator,
         divided |-> denominator >= 0,
         score |-> IF denominator >= 0 THEN quotient.value
                   ELSE [num |-> 1, den |-> 1],
         error |-> IF denominator >= 0 THEN quotient.error ELSE "none"]

\* Lines 79-91 with return_parts=False; numerator and denominator are the
\* parts return_parts=True hands back.
boundary_similarity(matches, count_edits, n_additions, n_substitutions, n_transpositions) ==
    LET count_unweighted == n_additions + n_substitutions + n_transpositions
        denominator == count_unweighted + matches
        numerator == [num |-> denominator * WeightDen - count_edits,
                      den |-> WeightDen]
        quotient == TrueDivide(numerator, [num |-> denominator, den |-> 1])
    IN  [matches |-> matches,
         count_edits |-> count_edits,
         denominator |-> denominator,
         numerator |-> numerator,
         divided |-> denominator > 0,
         score |-> IF denominator > 0 THEN quotient.value
                   ELSE [num |-> 1, den |-> 1],
         error |-> IF denominator > 0 THEN quotient.error ELSE "none"]

\* What a weighting function may return for a list of edits: a value
\* between 0 and the length of the list, times WeightDen.
WeightValues(edits) == 0..(WeightDen * Len(edits))

\* Lines 40-61 and 74-91: boundary_edit_distance has returned; the weights
\* are applied, the matches counted and the score computed.
BoundarySimilarity ==
    /\ pc = "done"
    /\ peer = << >>
    /\ similarity = << >>
    /\ \E count_additions \in WeightValues(additions),
          count_substitutions \in WeightValues(substitutions),
          count_transpositions \in WeightValues(transpositions) :
          similarity' =
             << boundary_similarity(
                    Matches(boundary_string_a, boundary_string_b),
                    count_additions + count_substitutions + count_transpositions,
                    Len(additions), Len(substitutions), Len(transpositions)) >>
    /\ UNCHANGED << heap, id_boundary_string_a, id_boundary_string_b, n_t, pc,
                    id_options_set, id_options_transp, transpositions, n_i, i,
                    t_p, todo, additions, substitutions, position_edits, error,
                    peer, alone >>
    /\ Read

\* The arguments of boundary_similarity: two boundary strings of equal
\* length and the default n_t.
InitSimilarity ==
    /\ \E n \in 0..MaxLen :
          \E a \in BoundaryStrings(n, Labels), b \in BoundaryStrings(n, Labels) :
             /\ LabelCount(a, n) + LabelCount(b, n) <= MaxOcc
             /\ Arguments(a, b)
    /\ n_t = DEFAULT_N_T
    /\ Fresh
    /\ Single

NextSimilarity ==
    \/ Next
    \/ BoundarySimilarity

SpecSimilarity == InitSimilarity /\ [][NextSimilarity]_vars

(***************************************************************************)
(* Vocabulary of the properties.                                           *)
(***************************************************************************)
Returned == pc = "done"

Raised == pc = "raised"

EqualLength == len(boundary_string_a) = len(boundary_string_b)

\* The number of label occurrences that differ, over positions 0..n-1.
RECURSIVE DifferingUpTo(_)
DifferingUpTo(n) ==
    IF n = 0 THEN 0
    ELSE Cardinality(SymDiff(boundary_string_a[n - 1], boundary_string_b[n - 1]))
         + DifferingUpTo(n - 1)

TotalDiffering == DifferingUpTo(len(boundary_string_a))

EmptyDecomposition ==
    /\ additions = << >>
    /\ substitutions = << >>
    /\ transpositions = << >>

\* Every label of both boundary strings is an integer CPython caches.
AllLabelsCached ==
    /\ \A p \in DOMAIN boundary_string_a : boundary_string_a[p] \subseteq CachedInts
    /\ \A p \in DOMAIN boundary_string_b : boundary_string_b[p] \subseteq CachedInts

\* The number of entries of transpositions equal to (start, end, type).
TranspositionCount(start, end, type) ==
    Cardinality({ k \in 1..Len(transpositions) :
                    transpositions[k] = [start |-> start, end |-> end, type |-> type] })

\* Whether the record of position p yielded an Addition or Substitution of
\* label type.
EditInvolves(p, type) ==
    /\ p \in DOMAIN position_edits
    /\ \/ \E k \in 1..Len(position_edits[p].added) :
             position_edits[p].added[k].type = type
       \/ \E sub \in position_edits[p].substitutions :
             sub.type_a = type \/ sub.type_b = type

(***************************************************************************)
(* C1  Conservation: when boundary_edit_distance returns for equal-length  *)
(* boundary strings, |additions| + 2*|substitutions| + 2*|transpositions|  *)
(* equals the number of differing label occurrences over all positions.    *)
(***************************************************************************)
C1_Conservation ==
    (Returned /\ EqualLength) =>
        Len(additions) + 2 * Len(substitutions) + 2 * Len(transpositions)
            = TotalDiffering

\* C1, restricted to labels for which `is` is equality: conservation holds.
C1_ConservationCachedLabels ==
    (Returned /\ EqualLength /\ AllLabelsCached) =>
        Len(additions) + 2 * Len(substitutions) + 2 * Len(transpositions)
            = TotalDiffering

(***************************************************************************)
(* C2  Identity: a boundary string compared with itself never raises and   *)
(* returns three empty collections, whatever n_t.                          *)
(***************************************************************************)
C2_Identity ==
    (boundary_string_a = boundary_string_b) =>
        /\ ~ Raised
        /\ Returned => EmptyDecomposition

\* The call has returned for two identical strings of at least two
\* positions, none of them empty, with transpositions enabled.
C2_Witness ==
    /\ Returned
    /\ boundary_string_a = boundary_string_b
    /\ len(boundary_string_a) >= 2
    /\ \A p \in DOMAIN boundary_string_a : boundary_string_a[p] # {}
    /\ n_t >= 2

(***************************************************************************)
(* C3  Length mismatch: a call with boundary strings of different lengths  *)
(* never returns a decomposition (it fails with an error).                 *)
(***************************************************************************)
C3_LengthMismatchFails ==
    (~ EqualLength) => ~ Returned

(***************************************************************************)
(* C4  Span bound: every accepted Transposition has start < end and        *)
(* 2 <= end - start + 1 <= n_t; with n_t = 2, end = start + 1.             *)
(***************************************************************************)
C4_SpanBound ==
    \A k \in 1..Len(transpositions) :
        LET t == transpositions[k]
        IN  /\ t.start < t.end
            /\ 2 <= t.end - t.start + 1
            /\ t.end - t.start + 1 <= n_t
            /\ (n_t = 2) => (t.end = t.start + 1)

\* The call has returned a transposition of span 3 and one of span 2.
C4_Witness ==
    /\ Returned
    /\ \E k \in 1..Len(transpositions) :
          transpositions[k].end - transpositions[k].start + 1 = 3
    /\ \E k \in 1..Len(transpositions) :
          transpositions[k].end - transpositions[k].start + 1 = 2

(***************************************************************************)
(* C5  Disabling transpositions: with n_t < 2 and equal-length strings the *)
(* call never raises, accepts no Transposition, and returns with           *)
(* |additions| + 2*|substitutions| equal to the number of differing label  *)
(* occurrences.                                                            *)
(***************************************************************************)
C5_DisabledTranspositions ==
    (n_t < 2 /\ EqualLength) =>
        /\ ~ Raised
        /\ transpositions = << >>
        /\ Returned =>
              Len(additions) + 2 * Len(substitutions) = TotalDiffering

\* The call has returned with a negative n_t for strings in which a label
\* sits at adjacent positions on opposite sides, and both an Addition and a
\* Substitution were produced.
C5_Witness ==
    /\ Returned
    /\ n_t < 0
    /\ \E p \in DOMAIN boundary_string_a :
          /\ p + 1 \in DOMAIN boundary_string_a
          /\ potential_transpositions(p, p + 1,
                 boundary_string_a[p], boundary_string_a[p + 1],
                 boundary_string_b[p], boundary_string_b[p + 1]) # { << >> }
    /\ additions # << >>
    /\ substitutions # << >>

(***************************************************************************)
(* C6  Degenerate input: two zero-length boundary strings never raise and  *)
(* return the empty decomposition, whatever n_t.                           *)
(***************************************************************************)
C6_ZeroLength ==
    (len(boundary_string_a) = 0 /\ len(boundary_string_b) = 0) =>
        /\ ~ Raised
        /\ Returned => EmptyDecomposition

\* The call has returned for two zero-length strings with n_t above 2.
C6_Witness ==
    /\ Returned
    /\ len(boundary_string_a) = 0
    /\ len(boundary_string_b) = 0
    /\ n_t > 2

(***************************************************************************)
(* C7  Pure transposition (Scenario C).                                    *)
(***************************************************************************)
\* Label L is in A[p] and B[p+1], in neither A[p+1] nor B[p], and p and p+1
\* have no other disagreement.
PureTranspositionAt(p, L) ==
    /\ p \in DOMAIN boundary_string_a
    /\ p + 1 \in DOMAIN boundary_string_a
    /\ SymDiff(boundary_string_a[p], boundary_string_b[p]) = {L}
    /\ SymDiff(boundary_string_a[p + 1], boundary_string_b[p + 1]) = {L}
    /\ L \in boundary_string_a[p]
    /\ L \in boundary_string_b[p + 1]

\* L is in B[p-1] but not in A[p-1]: the window (p-1, p), scanned before
\* (p, p+1), holds L as a candidate too.
ClaimableFromLeft(p, L) ==
    /\ p - 1 \in DOMAIN boundary_string_a
    /\ L \in boundary_string_b[p - 1] \ boundary_string_a[p - 1]

\* The outcome Scenario C promises at (p, p+1) for L.
PureTranspositionOutcome(p, L) ==
    /\ ~ Raised
    /\ Returned =>
          /\ TranspositionCount(p, p + 1, L) = 1
          /\ ~ EditInvolves(p, L)
          /\ ~ EditInvolves(p + 1, L)

\* C7 as claimed: for equal-length strings and n_t >= 2, every pure
\* transposition pattern at (p, p+1) yields exactly one Transposition
\* (p, p+1, L) and no Addition or Substitution of L at p or p+1.
C7_PureTranspositionAsClaimed ==
    (EqualLength /\ n_t >= 2) =>
        \A p \in DOMAIN boundary_string_a : \A L \in Labels :
            PureTranspositionAt(p, L) => PureTranspositionOutcome(p, L)

\* C7 amended: the same, provided L cannot be claimed by the window
\* (p-1, p), i.e. p = 0 or L is not in B[p-1] \ A[p-1].
C7_PureTransposition ==
    (EqualLength /\ n_t >= 2) =>
        \A p \in DOMAIN boundary_string_a : \A L \in Labels :
            (PureTranspositionAt(p, L) /\ ~ ClaimableFromLeft(p, L))
                => PureTranspositionOutcome(p, L)

\* The call has returned for a pure transposition pattern of the uncached
\* label at (1, 2) with a differing position 0 to its left.
C7_Witness ==
    /\ Returned
    /\ n_t >= 2
    /\ PureTranspositionAt(1, 300)
    /\ ~ ClaimableFromLeft(1, 300)
    /\ boundary_string_a[0] # boundary_string_b[0]
    /\ TranspositionCount(1, 2, 300) = 1

(***************************************************************************)
(* Vocabulary of the single-position properties.  The record of position p *)
(* is what additions_substitutions_sets was called with, position_edits[p] *)
(* is what it returned.                                                    *)
(***************************************************************************)
\* All injective pairings of the smaller of a, b into the larger, each as a
\* set of pairs (label of a, label of b).
InjectivePairings(a, b) ==
    IF Cardinality(a) <= Cardinality(b)
    THEN { { << x, f[x] >> : x \in a } :
             f \in { g \in [a -> b] : \A x, y \in a : x # y => g[x] # g[y] } }
    ELSE { { << f[y], y >> : y \in b } :
             f \in { g \in [b -> a] : \A x, y \in b : x # y => g[x] # g[y] } }

\* Sum of |type_a - type_b| over a set of pairs.
RECURSIVE PairingCost(_)
PairingCost(P) ==
    IF P = {} THEN 0
    ELSE LET q == CHOOSE x \in P : TRUE
             gap == IF q[1] >= q[2] THEN q[1] - q[2] ELSE q[2] - q[1]
         IN  gap + PairingCost(P \ {q})

ReturnedPairs(p) ==
    { << sub.type_a, sub.type_b >> : sub \in position_edits[p].substitutions }

ReturnedAdditions(p) ==
    { position_edits[p].added[k] : k \in 1..Len(position_edits[p].added) }

\* The arguments of Scenario A / the docstring example.
ScenarioA ==
    /\ len(boundary_string_a) = 1
    /\ len(boundary_string_b) = 1
    /\ boundary_string_a[0] = {1, 2, 3, 4}
    /\ boundary_string_b[0] = {1, 6}

(***************************************************************************)
(* C8  Minimum-cost pairing: the Substitutions returned for a record       *)
(* (d, a, b) are an injective pairing of the smaller of a, b into the      *)
(* larger, of minimal sum of |type_a - type_b| among all such pairings;    *)
(* A = {1,2,3,4}, B = {1,6} yields Substitutions {(4,6)} and Additions     *)
(* [(2,'a'), (3,'a')].                                                     *)
(***************************************************************************)
C8_MinimumCostPairing ==
    /\ \A p \in DOMAIN position_edits :
          LET a == options_set[p].a_b
              b == options_set[p].b_a
          IN  /\ ReturnedPairs(p) \in InjectivePairings(a, b)
              /\ \A P \in InjectivePairings(a, b) :
                    PairingCost(ReturnedPairs(p)) <= PairingCost(P)
    /\ ScenarioA => ~ Raised
    /\ (ScenarioA /\ Returned) =>
          /\ substitutions = << [type_a |-> 4, type_b |-> 6] >>
          /\ additions = << [type |-> 2, side |-> "a"], [type |-> 3, side |-> "a"] >>

\* The call on Scenario A has returned.
C8_Witness ==
    /\ Returned
    /\ ScenarioA
    /\ 0 \in DOMAIN position_edits
    /\ ReturnedPairs(0) = { << 4, 6 >> }

(***************************************************************************)
(* C9  Shape of the per-position result: min(|a|,|b|) Substitutions, each  *)
(* from a label of a to a label of b, no label used twice; the Additions   *)
(* are exactly the unpaired labels, once each, tagged 'a' when from a and  *)
(* 'b' when from b; with the smaller set empty there is no Substitution    *)
(* and every label of the other set is an Addition.                        *)
(***************************************************************************)
C9_ResultShape ==
    \A p \in DOMAIN position_edits :
        LET a == options_set[p].a_b
            b == options_set[p].b_a
            subs == position_edits[p].substitutions
            added == position_edits[p].added
            used_a == { sub.type_a : sub \in subs }
            used_b == { sub.type_b : sub \in subs }
        IN  /\ Cardinality(subs) = Min2(Cardinality(a), Cardinality(b))
            /\ used_a \subseteq a
            /\ used_b \subseteq b
            /\ Cardinality(used_a) = Cardinality(subs)
            /\ Cardinality(used_b) = Cardinality(subs)
            /\ ReturnedAdditions(p) =
                  { [type |-> x, side |-> "a"] : x \in a \ used_a }
                  \cup { [type |-> y, side |-> "b"] : y \in b \ used_b }
            /\ Len(added) = Cardinality(ReturnedAdditions(p))
            /\ (a = {} \/ b = {}) =>
                  /\ subs = {}
                  /\ { added[k].type : k \in 1..Len(added) } = a \cup b

\* The call has returned for a position with one label only in A and three
\* only in B: one Substitution, two Additions tagged 'b'.
C9_Witness ==
    /\ Returned
    /\ 0 \in DOMAIN position_edits
    /\ Cardinality(options_set[0].a_b) = 1
    /\ Cardinality(options_set[0].b_a) = 3
    /\ Len(substitutions) = 1
    /\ Len(additions) = 2

(***************************************************************************)
(* C10  Count/set agreement: for the differences (d, a, b) of a position,  *)
(* additions_substitutions(d, a, b) is (abs(|a|-|b|), min(|a|,|b|)), and   *)
(* these are the numbers of Additions and Substitutions that               *)
(* additions_substitutions_sets returns for it; the docstring example      *)
(* gives (2, 1).                                                           *)
(***************************************************************************)
C10_CountSetAgreement ==
    /\ (Returned /\ len(boundary_string_a) = 1 /\ len(boundary_string_b) = 1) =>
          LET r == Difference(boundary_string_a[0], boundary_string_b[0])
              counts == additions_substitutions(r.sim, r.a_b, r.b_a)
          IN  /\ counts[1] = abs(Cardinality(r.a_b) - Cardinality(r.b_a))
              /\ FracEquals(counts[2],
                            Min2(Cardinality(r.a_b), Cardinality(r.b_a)))
              /\ counts[1] = Len(additions)
              /\ FracEquals(counts[2], Len(substitutions))
    /\ ScenarioA =>
          LET counts == additions_substitutions({2, 3, 4, 6}, {2, 3, 4}, {6})
          IN  counts[1] = 2 /\ FracEquals(counts[2], 1)

\* The call has returned for a position with two labels only in A and two
\* only in B with a label in common: no Addition, two Substitutions.
C10_Witness ==
    /\ Returned
    /\ len(boundary_string_a) = 1
    /\ Cardinality(boundary_string_a[0] \ boundary_string_b[0]) = 2
    /\ Cardinality(boundary_string_b[0] \ boundary_string_a[0]) = 2
    /\ boundary_string_a[0] \cap boundary_string_b[0] # {}
    /\ Len(additions) = 0
    /\ Len(substitutions) = 2

(***************************************************************************)
(* Vocabulary of the decomposition properties.                             *)
(***************************************************************************)
\* The label occurrences that differ: (position, label, side holding it).
DifferingOccurrences ==
    UNION { { [pos |-> p, type |-> L, side |-> "a"] :
                L \in boundary_string_a[p] \ boundary_string_b[p] }
            \cup { [pos |-> p, type |-> L, side |-> "b"] :
                L \in boundary_string_b[p] \ boundary_string_a[p] } :
            p \in (DOMAIN boundary_string_a) \cap (DOMAIN boundary_string_b) }

\* Two differing occurrences one edit can cover together: a Substitution
\* (same position, opposite sides) or a Transposition of span 2..n_t (same
\* label, opposite sides, positions less than n_t apart).
CoverableTogether(u, v) ==
    /\ u.side # v.side
    /\ \/ u.pos = v.pos
       \/ /\ u.type = v.type
          /\ u.pos # v.pos
          /\ abs(u.pos - v.pos) + 1 <= n_t

\* The largest number of disjoint pairs coverable together within V.
RECURSIVE MaxPairs(_)
MaxPairs(V) ==
    IF V = {} THEN 0
    ELSE LET u == CHOOSE x \in V : TRUE
             unpaired == MaxPairs(V \ {u})
             partners == { v \in V \ {u} : CoverableTogether(u, v) }
             paired == { 1 + MaxPairs(V \ {u, v}) : v \in partners }
         IN  IF \E k \in paired : k > unpaired
             THEN CHOOSE k \in paired : \A m \in paired : m <= k
             ELSE unpaired

\* The least number of edits of a decomposition covering every differing
\* occurrence exactly once.
MinimumEdits == Cardinality(DifferingOccurrences) - MaxPairs(DifferingOccurrences)

TotalEdits == Len(additions) + Len(substitutions) + Len(transpositions)

(***************************************************************************)
(* C11  Minimality as documented: when boundary_edit_distance returns for  *)
(* equal-length boundary strings, |additions| + |substitutions| +          *)
(* |transpositions| is the least number of edits of any decomposition that *)
(* covers every differing label occurrence exactly once with additions,    *)
(* same-position substitutions and transpositions of span 2..n_t.          *)
(***************************************************************************)
C11_Minimality ==
    (Returned /\ EqualLength) => TotalEdits = MinimumEdits

\* C11 without transpositions: the per-position matcher alone is minimal.
C11_MinimalityWithoutTranspositions ==
    (Returned /\ EqualLength /\ n_t < 2) => TotalEdits = MinimumEdits

(***************************************************************************)
(* C12  Determinism: two invocations of boundary_edit_distance on equal    *)
(* inputs (same A, same B, same n_t) return identical decompositions.  The *)
(* arguments fix the initial state and every step but the test of line 170 *)
(* is a function of the state, so this says that no state of a call lets   *)
(* the candidate at hand be accepted as well as rejected: two calls on     *)
(* equal arguments then run through the same states to the same lists.     *)
(***************************************************************************)
C12_Determinism ==
    ~ (ENABLED AcceptTransposition /\ ENABLED RejectTransposition)

\* C12, restricted to labels for which `is` is equality: the call is
\* deterministic.
C12_DeterminismCachedLabels ==
    AllLabelsCached =>
        ~ (ENABLED AcceptTransposition /\ ENABLED RejectTransposition)

(***************************************************************************)
(* C13  No shared state between comparisons: each call allocates its own   *)
(* dict of difference records, its own record sets and its own table of    *)
(* claimed transpositions (no object one call allocated is an object the   *)
(* other allocated or a label set of an argument), and a call run beside a *)
(* second call, their steps interleaved in any order, and after an earlier *)
(* call, returns the decomposition it returned when it ran alone, also     *)
(* when the two calls are given the same boundary-string object.           *)
(***************************************************************************)
\* The frame of the first of the two calls, wherever it is.
FirstFrame == IF peer[1].first THEN peer[1] ELSE Frame

\* The objects the call with frame f has allocated: its two dicts and the
\* sets of its records.
call_objects(f) ==
    ({f.id_options_set, f.id_options_transp} \ {None})
        \cup (IF f.id_options_set = None THEN {}
              ELSE UNION { { heap[f.id_options_set][p].sim,
                             heap[f.id_options_set][p].a_b,
                             heap[f.id_options_set][p].b_a } :
                           p \in DOMAIN heap[f.id_options_set] })

\* The label sets of the arguments of the call with frame f.
frame_arguments(f) == ids_of(f.id_boundary_string_a) \cup ids_of(f.id_boundary_string_b)

C13_NoSharedState ==
    peer # << >> =>
        /\ call_objects(Frame) \cap call_objects(peer[1]) = {}
        /\ (call_objects(Frame) \cup call_objects(peer[1]))
              \cap (frame_arguments(Frame) \cup frame_arguments(peer[1])) = {}
        /\ FirstFrame.pc \in {"done", "raised"} => Result(FirstFrame) = alone[1]

\* The first call has returned a Transposition after the second call, given
\* the same object as its first argument and another second argument,
\* accepted one too while the first was suspended between two of its steps.
C13_Witness ==
    /\ peer # << >>
    /\ ~ peer[1].first
    /\ Returned
    /\ transpositions # << >>
    /\ peer[1].pc = "find_transpositions"
    /\ peer[1].transpositions # << >>
    /\ peer[1].id_boundary_string_a = id_boundary_string_a
    /\ boundary_string(heap, peer[1].id_boundary_string_b) # boundary_string_b

(***************************************************************************)
(* Vocabulary of the score properties.                                     *)
(***************************************************************************)
Scored == similarity # << >>

\* q1 <= q2 for fractions with positive denominators
FracLeq(q1, q2) == q1.num * q2.den <= q2.num * q1.den

(***************************************************************************)
(* C14  Normalized score: whenever each weighting function returns a value *)
(* between 0 and the length of the edit list it is given,                  *)
(* 0 <= matches <= numerator <= denominator with denominator =             *)
(* |additions| + |substitutions| + |transpositions| + matches, and the     *)
(* score returned lies in [0, 1].                                          *)
(***************************************************************************)
C14_NormalizedScore ==
    Scored =>
        LET parts == similarity[1]
            whole(k) == [num |-> k, den |-> 1]
        IN  /\ 0 <= parts.matches
            /\ FracLeq(whole(parts.matches), parts.numerator)
            /\ FracLeq(parts.numerator, whole(parts.denominator))
            /\ parts.denominator =
                  Len(additions) + Len(substitutions) + Len(transpositions)
                  + parts.matches
            /\ parts.error = "none"
            /\ parts.score.den > 0
            /\ FracLeq(whole(0), parts.score)
            /\ FracLeq(parts.score, whole(1))

\* A score strictly between 0 and 1 has been computed from a result with an
\* Addition and a Transposition for strings with a match, with a fractional
\* count_edits.
C14_Witness ==
    /\ Scored
    /\ additions # << >>
    /\ transpositions # << >>
    /\ similarity[1].matches > 0
    /\ similarity[1].count_edits % WeightDen # 0
    /\ similarity[1].score.num > 0
    /\ similarity[1].score.num < similarity[1].score.den

(***************************************************************************)
(* C15  Empty denominator: boundary_similarity takes the branch returning  *)
(* the constant 1 exactly when denominator = 0, which is exactly when the  *)
(* result has no edit and the strings no matching boundary, and it never   *)
(* divides by zero; for two identical boundary strings with at least one   *)
(* boundary it returns numerator / denominator = 1 (the weighting          *)
(* functions returning 0 for empty lists).                                 *)
(***************************************************************************)
C15_EmptyDenominator ==
    Scored =>
        LET parts == similarity[1]
        IN  /\ parts.error = "none"
            /\ (~ parts.divided) <=> (parts.denominator = 0)
            /\ (parts.denominator = 0) <=>
                  /\ EmptyDecomposition
                  /\ Matches(boundary_string_a, boundary_string_b) = 0
            /\ (~ parts.divided) => parts.score = [num |-> 1, den |-> 1]
            /\ (/\ boundary_string_a = boundary_string_b
                /\ \E p \in DOMAIN boundary_string_a : boundary_string_a[p] # {})
                  => /\ parts.divided
                     /\ parts.count_edits = 0
                     /\ parts.score.num = parts.score.den

\* The constant 1 has been returned for two non-empty strings without any
\* boundary.
C15_Witness ==
    /\ Scored
    /\ ~ similarity[1].divided
    /\ len(boundary_string_a) >= 2
    /\ similarity[1].score = [num |-> 1, den |-> 1]

(***************************************************************************)
(* C16  Difference extraction: for equal-length A, B the mapping that      *)
(* optional_set_edits returns has as keys exactly the positions p with     *)
(* A[p] # B[p], and its record at p is (the labels held by exactly one of  *)
(* A[p], B[p]; A[p] \ B[p]; B[p] \ A[p]).                                  *)
(***************************************************************************)
\* The step of the call that runs optional_set_edits.
Extracts == pc = "start" /\ pc' = "find_transpositions"

C16_DifferenceExtraction ==
    [][(Extracts /\ EqualLength) =>
          /\ DOMAIN options_set' =
                { p \in DOMAIN boundary_string_a :
                     boundary_string_a[p] # boundary_string_b[p] }
          /\ \A p \in DOMAIN options_set' :
                /\ options_set'[p].sim =
                      { L \in boundary_string_a[p] \cup boundary_string_b[p] :
                           (L \in boundary_string_a[p]) # (L \in boundary_string_b[p]) }
                /\ options_set'[p].a_b = boundary_string_a[p] \ boundary_string_b[p]
                /\ options_set'[p].b_a = boundary_string_b[p] \ boundary_string_a[p]
      ]_vars

\* optional_set_edits has just returned a mapping that omits position 1,
\* where both strings hold the same non-empty set, and keeps positions 0
\* and 2.
C16_Witness ==
    /\ pc = "find_transpositions"
    /\ transpositions = << >>
    /\ n_i = 1
    /\ i = 0
    /\ t_p = << >>
    /\ len(boundary_string_a) = 3
    /\ boundary_string_a[1] # {}
    /\ boundary_string_a[1] = boundary_string_b[1]
    /\ DOMAIN options_set = {0, 2}

(***************************************************************************)
(* C17  Transposition shape: every accepted Transposition (i, j, L) has L  *)
(* in exactly one of A[i], B[i], in exactly one of A[j], B[j], and on      *)
(* opposite sides at the two endpoints.                                    *)
(***************************************************************************)
\* L is held by A at position p and by B at position q, and by neither B at
\* p nor A at q.
MovedFromAToB(p, q, L) ==
    /\ L \in boundary_string_a[p]
    /\ L \notin boundary_string_b[p]
    /\ L \in boundary_string_b[q]
    /\ L \notin boundary_string_a[q]

C17_TranspositionShape ==
    EqualLength =>
        \A k \in 1..Len(transpositions) :
            LET t == transpositions[k]
            IN  /\ t.start \in DOMAIN boundary_string_a
                /\ t.end \in DOMAIN boundary_string_a
                /\ \/ MovedFromAToB(t.start, t.end, t.type)
                   \/ MovedFromAToB(t.end, t.start, t.type)

\* The call has returned a Transposition of a label that A holds at the
\* start and one of a label that B holds at the start.
C17_Witness ==
    /\ Returned
    /\ \E k \in 1..Len(transpositions) :
          MovedFromAToB(transpositions[k].start, transpositions[k].end,
                        transpositions[k].type)
    /\ \E k \in 1..Len(transpositions) :
          MovedFromAToB(transpositions[k].end, transpositions[k].start,
                        transpositions[k].type)

(***************************************************************************)
(* Vocabulary of the acceptance properties.                                *)
(***************************************************************************)
\* Some accepted Transposition of label L has an endpoint at p or at q.
ClaimedAt(p, q, L) ==
    \E k \in 1..Len(transpositions) :
        /\ transpositions[k].type = L
        /\ {transpositions[k].start, transpositions[k].end} \cap {p, q} # {}

\* The record of position p, as it stands, has a non-empty A-only set and a
\* non-empty B-only set.
SupportsSubstitution(p) ==
    /\ p \in DOMAIN options_set
    /\ options_set[p].a_b # {}
    /\ options_set[p].b_a # {}

\* The call is about to decide on the candidate at the head of t_p.
ConsidersCandidate == pc = "find_transpositions" /\ t_p # << >>

(***************************************************************************)
(* C18  No overlapping claims per label: no two distinct Transpositions of *)
(* the list find_transpositions builds have the same label and share an    *)
(* endpoint position.                                                      *)
(***************************************************************************)
C18_NoOverlappingClaims ==
    \A k1, k2 \in 1..Len(transpositions) :
        (k1 # k2 /\ transpositions[k1].type = transpositions[k2].type) =>
            {transpositions[k1].start, transpositions[k1].end}
                \cap {transpositions[k2].start, transpositions[k2].end} = {}

\* C18, restricted to labels for which `is` is equality: no overlap.
C18_NoOverlappingClaimsCachedLabels ==
    AllLabelsCached =>
        \A k1, k2 \in 1..Len(transpositions) :
            (k1 # k2 /\ transpositions[k1].type = transpositions[k2].type) =>
                {transpositions[k1].start, transpositions[k1].end}
                    \cap {transpositions[k2].start, transpositions[k2].end} = {}

(***************************************************************************)
(* C19  Substitution protection: a candidate (i, j, L) is never accepted   *)
(* if, in the difference records as they stand when it is considered,      *)
(* position i and position j each have a non-empty A-only set and a        *)
(* non-empty B-only set; it is accepted when it does not overlap an        *)
(* accepted transposition of L and at least one endpoint has an empty      *)
(* A-only or B-only set.                                                   *)
(***************************************************************************)
C19_SubstitutionProtection ==
    [][(ConsidersCandidate /\ EqualLength) =>
          LET j == i + n_i
              L == Head(t_p).type
              protected == SupportsSubstitution(i) /\ SupportsSubstitution(j)
          IN  /\ protected => transpositions' = transpositions
              /\ (~ protected /\ ~ ClaimedAt(i, j, L)) =>
                    transpositions' =
                       Append(transpositions, [start |-> i, end |-> j, type |-> L])
      ]_vars

\* C19, restricted to labels for which `is` is equality.
C19_SubstitutionProtectionCachedLabels ==
    [][(ConsidersCandidate /\ EqualLength /\ AllLabelsCached) =>
          LET j == i + n_i
              L == Head(t_p).type
              protected == SupportsSubstitution(i) /\ SupportsSubstitution(j)
          IN  /\ protected => transpositions' = transpositions
              /\ (~ protected /\ ~ ClaimedAt(i, j, L)) =>
                    transpositions' =
                       Append(transpositions, [start |-> i, end |-> j, type |-> L])
      ]_vars

(***************************************************************************)
(* C20  Claimed labels are removed before later matching (I2): from the    *)
(* moment a Transposition (i, j, L) is accepted and for the rest of the    *)
(* call, L is absent from the symmetric-difference, A-only and B-only sets *)
(* of the records at i and at j, and no Addition or Substitution produced  *)
(* from position i or position j involves L.                               *)
(***************************************************************************)
\* Label L is in none of the three sets of the record of position p.
AbsentFromRecord(p, L) ==
    /\ p \in DOMAIN options_set
    /\ L \notin options_set[p].sim
    /\ L \notin options_set[p].a_b
    /\ L \notin options_set[p].b_a

C20_ClaimedLabelsRemoved ==
    (EqualLength /\ ~ Raised) =>
        \A k \in 1..Len(transpositions) :
            LET t == transpositions[k]
            IN  /\ AbsentFromRecord(t.start, t.type)
                /\ AbsentFromRecord(t.end, t.type)
                /\ ~ EditInvolves(t.start, t.type)
                /\ ~ EditInvolves(t.end, t.type)

\* The call has returned a Transposition of a label, and both of its
\* endpoints yielded an edit of the other label.
C20_Witness ==
    /\ Returned
    /\ \E k \in 1..Len(transpositions) :
          LET t == transpositions[k]
          IN  /\ t.start \in DOMAIN position_edits
              /\ t.end \in DOMAIN position_edits
              /\ \E L \in Labels \ {t.type} :
                    EditInvolves(t.start, L) /\ EditInvolves(t.end, L)

(***************************************************************************)
(* Vocabulary of the scan-order properties.                                *)
(***************************************************************************)
\* (span1, start1) <= (span2, start2) in the order of the scan: ascending
\* span, then ascending start.
ScanLeq(span1, start1, span2, start2) ==
    \/ span1 < span2
    \/ span1 = span2 /\ start1 <= start2

Scanning == pc = "find_transpositions"

(***************************************************************************)
(* C21  Scan order: windows are examined by ascending span and, within a   *)
(* span, by ascending start index, so the Transposition list is sorted by  *)
(* (end - start, start) in non-decreasing order, and no accepted           *)
(* Transposition belongs to a window later in that order than the one      *)
(* being examined: every transposition of a shorter span is decided before *)
(* a candidate of a longer span is examined.                               *)
(***************************************************************************)
C21_ScanOrder ==
    /\ [](/\ \A k1, k2 \in 1..Len(transpositions) :
                k1 < k2 =>
                   ScanLeq(transpositions[k1].end - transpositions[k1].start,
                           transpositions[k1].start,
                           transpositions[k2].end - transpositions[k2].start,
                           transpositions[k2].start)
          /\ Scanning =>
                \A k \in 1..Len(transpositions) :
                   ScanLeq(transpositions[k].end - transpositions[k].start,
                           transpositions[k].start, n_i, i))
    /\ [][(Scanning /\ Scanning') => ScanLeq(n_i, i, n_i', i')]_vars

\* The call has returned a Transposition of span 2 starting at 1 followed by
\* one of span 3 starting at 0.
C21_Witness ==
    /\ Returned
    /\ Len(transpositions) >= 2
    /\ transpositions[1].start = 1
    /\ transpositions[1].end = 2
    /\ \E k \in 2..Len(transpositions) :
          transpositions[k].start = 0 /\ transpositions[k].end = 2

\* The arguments of the first-found-wins example for label L:
\* A = [{}, {L}, {}], B = [{L}, {}, {L}], n_t = 2.
FirstFoundExample(L) ==
    /\ n_t = 2
    /\ len(boundary_string_a) = 3
    /\ len(boundary_string_b) = 3
    /\ boundary_string_a = [p \in 0..2 |-> IF p = 1 THEN {L} ELSE {}]
    /\ boundary_string_b = [p \in 0..2 |-> IF p = 1 THEN {} ELSE {L}]

\* What the example is said to yield.
FirstFoundOutcome(L) ==
    /\ transpositions = << [start |-> 0, end |-> 1, type |-> L] >>
    /\ additions = << [type |-> L, side |-> "b"] >>
    /\ substitutions = << >>

(***************************************************************************)
(* C22  First-found-wins: a candidate (i, j, L) that shares an endpoint    *)
(* with a Transposition of L accepted earlier in the scan is rejected, and *)
(* the difference records are left as they are, so that the occurrence of  *)
(* L it would have claimed stays to become an Addition or Substitution;    *)
(* A = [{}, {L}, {}], B = [{L}, {}, {L}] with n_t = 2 never raises and     *)
(* yields Transposition (0, 1, L) and one Addition (L, 'b').               *)
(***************************************************************************)
C22_FirstFoundWins ==
    /\ [](\A L \in Labels :
             FirstFoundExample(L) =>
                /\ ~ Raised
                /\ Returned => FirstFoundOutcome(L))
    /\ [][(ConsidersCandidate /\ EqualLength
             /\ ClaimedAt(i, i + n_i, Head(t_p).type)) =>
                /\ transpositions' = transpositions
                /\ options_set' = options_set
         ]_vars

\* C22, restricted to labels for which `is` is equality: first-found-wins
\* holds.
C22_FirstFoundWinsCachedLabels ==
    /\ [](\A L \in Labels \cap CachedInts :
             FirstFoundExample(L) =>
                /\ ~ Raised
                /\ Returned => FirstFoundOutcome(L))
    /\ [][(ConsidersCandidate /\ EqualLength /\ AllLabelsCached
             /\ ClaimedAt(i, i + n_i, Head(t_p).type)) =>
                /\ transpositions' = transpositions
                /\ options_set' = options_set
         ]_vars

(***************************************************************************)
(* Vocabulary of the tie-break property.                                   *)
(***************************************************************************)
\* s comes before t, or is t, in lexicographic order (equal lengths).
LexLeq(s, t) ==
    \/ s = t
    \/ \E k \in DOMAIN s :
          /\ s[k] < t[k]
          /\ \A m \in 1..(k - 1) : s[m] = t[m]

\* x = (ordering of a, ordering of b) is enumerated no later than y by the
\* loops: orderings of a outside, orderings of b inside.
MetNoLater(x, y) ==
    \/ x[1] # y[1] /\ LexLeq(x[1], y[1])
    \/ x[1] = y[1] /\ LexLeq(x[2], y[2])

\* The elementwise pairing of two orderings, cut to the shorter.
ElementwisePairs(s, t) ==
    { << s[k], t[k] >> : k \in (DOMAIN s) \cap (DOMAIN t) }

\* The pairing of least cost that the enumeration meets first.
FirstMetMinimalPairing(a, b) ==
    LET all == Orderings(a) \X Orderings(b)
        cost == [x \in all |-> PairingCost(ElementwisePairs(x[1], x[2]))]
        least == CHOOSE c \in { cost[x] : x \in all } :
                    \A x \in all : c <= cost[x]
        minimal == { x \in all : cost[x] = least }
        first == CHOOSE x \in minimal : \A y \in minimal : MetNoLater(x, y)
    IN  ElementwisePairs(first[1], first[2])

\* Two different pairings of a and b both have the least cost.
TiedPairings(a, b) ==
    \E P, Q \in InjectivePairings(a, b) :
        /\ P # Q
        /\ PairingCost(P) = PairingCost(Q)
        /\ \A R \in InjectivePairings(a, b) : PairingCost(P) <= PairingCost(R)

(***************************************************************************)
(* C23  Substitution tie-break: the pairing additions_substitutions_sets   *)
(* returns for a record is, among the pairings of minimal cost, the one    *)
(* met first when the orderings of a are enumerated in lexicographic order *)
(* and, for each, the orderings of b in lexicographic order, paired        *)
(* elementwise and cut to the shorter: a later pairing replaces the        *)
(* current one only if its cost is strictly smaller.                       *)
(***************************************************************************)
C23_SubstitutionTieBreak ==
    \A p \in DOMAIN position_edits :
        ReturnedPairs(p) =
            FirstMetMinimalPairing(options_set[p].a_b, options_set[p].b_a)

\* The call has returned for a position with one label only in A and two
\* only in B at the same distance from it: two pairings tie, and the one
\* with the smaller label of B, met first, was returned.
C23_Witness ==
    /\ Returned
    /\ 0 \in DOMAIN position_edits
    /\ Cardinality(options_set[0].a_b) = 1
    /\ Cardinality(options_set[0].b_a) = 2
    /\ TiedPairings(options_set[0].a_b, options_set[0].b_a)
    /\ \E sub \in position_edits[0].substitutions :
          \A y \in options_set[0].b_a : sub.type_b <= y

(***************************************************************************)
(* C24  Inputs are left unchanged: no step of boundary_edit_distance, and  *)
(* no step of boundary_similarity after it, changes either input boundary  *)
(* string (its length and the label set at every position stay the same,   *)
(* whatever transpositions are accepted) or n_t; every object a step       *)
(* changes is one the call allocated: the sets that the transposition      *)
(* search empties are those of the difference records, which are copies.   *)
(***************************************************************************)
C24_InputsUnchanged ==
    [][/\ boundary_string_a' = boundary_string_a
       /\ boundary_string_b' = boundary_string_b
       /\ n_t' = n_t
       /\ \A o \in DOMAIN heap :
             heap'[o] # heap[o] =>
                 /\ o \in call_objects(Frame)
                 /\ o \notin frame_arguments(Frame)
      ]_vars

\* The score has been computed after a call that accepted a Transposition
\* and emptied the record of a position where the inputs hold different
\* label sets: the set of the record is empty, the label set of the input
\* it was copied from is not.
C24_Witness ==
    /\ Scored
    /\ transpositions # << >>
    /\ \E p \in DOMAIN options_set :
          /\ options_set[p].sim = {}
          /\ options_set[p].a_b = {}
          /\ boundary_string_a[p] # {}
          /\ boundary_string_a[p] \cap boundary_string_b[p] = {}

(***************************************************************************)
(* C25  Termination: for equal-length boundary strings and every n_t,      *)
(* boundary_edit_distance eventually returns a decomposition and never     *)
(* raises; its phases run in the order difference extraction,              *)
(* transposition search, substitution matching, return.                    *)
(***************************************************************************)
\* The changes of phase the call may make.
PhaseOrder ==
    { << "start", "find_transpositions" >>,
      << "find_transpositions", "additions_substitutions" >>,
      << "additions_substitutions", "done" >> }

C25_Termination ==
    /\ <>Returned
    /\ []~Raised
    /\ [][pc' # pc => << pc, pc' >> \in PhaseOrder]_vars

\* The call has returned after a scan over two spans that accepted a
\* Transposition of span 3, and the substitution matching visited the
\* records of its two endpoints.
C25_Witness ==
    /\ Returned
    /\ n_t >= 3
    /\ transpositions = << [start |-> 0, end |-> 2, type |-> 300] >>
    /\ DOMAIN position_edits = {0, 2}

(***************************************************************************)
(* C26  Difference-record consistency: in every state of the call, every   *)
(* record (sim, a_b, b_a) has sim = a_b \cup b_a and a_b, b_a disjoint,    *)
(* with a_b within A[p] \ B[p] and b_a within B[p] \ A[p] for its position *)
(* p.                                                                      *)
(***************************************************************************)
C26_RecordConsistency ==
    \A p \in DOMAIN options_set :
        /\ options_set[p].sim = options_set[p].a_b \cup options_set[p].b_a
        /\ options_set[p].a_b \cap options_set[p].b_a = {}
        /\ p \in DOMAIN boundary_string_a
        /\ p \in DOMAIN boundary_string_b
        /\ options_set[p].a_b \subseteq boundary_string_a[p] \ boundary_string_b[p]
        /\ options_set[p].b_a \subseteq boundary_string_b[p] \ boundary_string_a[p]

\* The scan has accepted a Transposition and left, at one of its endpoints,
\* a record that lost a label of each side and keeps another.
C26_Witness ==
    /\ Scanning
    /\ \E k \in 1..Len(transpositions) :
          \E p \in {transpositions[k].start, transpositions[k].end} :
             /\ options_set[p].sim # {}
             /\ options_set[p].a_b # boundary_string_a[p] \ boundary_string_b[p]
    /\ \E p \in DOMAIN options_set :
          /\ options_set[p].sim # {}
          /\ options_set[p].b_a # boundary_string_b[p] \ boundary_string_a[p]

(***************************************************************************)
(* Vocabulary of the two-call properties.                                  *)
(***************************************************************************)
\* A second call on related arguments has returned.
SecondReturned == alone # << >> /\ peer = << >> /\ Returned

\* The number of edits of a result.
EditCount(result) ==
    Len(result.additions) + Len(result.substitutions) + Len(result.transpositions)

(***************************************************************************)
(* C27  Transpositions never add edits: for equal-length boundary strings, *)
(* the total |additions| + |substitutions| + |transpositions| returned for *)
(* a larger n_t is at most the total returned for a smaller one (n_t + 1   *)
(* against n_t, and any n_t >= 2 against n_t < 2).                         *)
(***************************************************************************)
C27_NeverMoreEdits ==
    (SecondReturned /\ EqualLength) => TotalEdits <= EditCount(alone[1])

\* C27, restricted to labels for which `is` is equality: a larger n_t never
\* gives more edits.
C27_NeverMoreEditsCachedLabels ==
    (SecondReturned /\ EqualLength /\ AllLabelsCached) =>
        TotalEdits <= EditCount(alone[1])

\* An Addition with its side exchanged, a Substitution with its types
\* exchanged.
MirrorAddition(add) ==
    [type |-> add.type, side |-> IF add.side = "a" THEN "b" ELSE "a"]

MirrorSubstitution(sub) == [type_a |-> sub.type_b, type_b |-> sub.type_a]

\* How often x occurs in the list s.
Occurrences(s, x) == Cardinality({ k \in 1..Len(s) : s[k] = x })

\* The result now returned is the mirror image of the result r: the same
\* Transposition list, the Additions of r in the same order with the sides
\* exchanged, the Substitutions of r, as often each, with the types
\* exchanged.
MirrorOf(r) ==
    /\ error = r.error
    /\ transpositions = r.transpositions
    /\ additions = [k \in 1..Len(r.additions) |-> MirrorAddition(r.additions[k])]
    /\ Len(substitutions) = Len(r.substitutions)
    /\ \A k \in 1..Len(r.substitutions) :
          Occurrences(substitutions, MirrorSubstitution(r.substitutions[k]))
             = Occurrences(r.substitutions, r.substitutions[k])

(***************************************************************************)
(* C28  Swap symmetry: for equal-length boundary strings and every n_t,    *)
(* boundary_edit_distance(B, A, n_t) returns the mirror image of           *)
(* boundary_edit_distance(A, B, n_t): the same Transposition list, the     *)
(* same Additions with side 'a' and 'b' exchanged, and the same            *)
(* Substitutions with type_a and type_b exchanged.                         *)
(***************************************************************************)
C28_SwapSymmetry ==
    (SecondReturned /\ EqualLength) => MirrorOf(alone[1])

\* C28, restricted to labels for which `is` is equality: the swapped call
\* returns the mirror image.
C28_SwapSymmetryCachedLabels ==
    (SecondReturned /\ EqualLength /\ AllLabelsCached) => MirrorOf(alone[1])

(***************************************************************************)
(* C29  Assertion validity: for every difference record that               *)
(* boundary_edit_distance passes to additions_substitutions_sets, emptied  *)
(* or partly emptied records included, the number of Additions built from  *)
(* a and b equals |d minus the substituted labels| and the assertion of    *)
(* line 92 holds: the call never ends in AssertionError.                   *)
(***************************************************************************)
C29_AssertionValidity ==
    /\ error # "AssertionError"
    /\ (pc = "additions_substitutions" /\ todo # << >>) =>
          LET option == options_set[Head(todo)]
          IN  \A r \in additions_substitutions_sets(option.sim, option.a_b,
                                                      option.b_a) : r.assert_ok
    /\ \A p \in DOMAIN position_edits :
          LET subs == position_edits[p].substitutions
              substituted == { sub.type_a : sub \in subs } \cup { sub.type_b : sub \in subs }
          IN  Len(position_edits[p].added)
                 = Cardinality(options_set[p].sim \ substituted)

\* The call has returned after passing on a record that a Transposition had
\* emptied, one that a Transposition had left a label in, and one that
\* yielded a Substitution.
C29_Witness ==
    /\ Returned
    /\ \E p \in DOMAIN position_edits : options_set[p].sim = {}
    /\ \E p \in DOMAIN position_edits :
          /\ options_set[p].sim # {}
          /\ options_set[p].sim # SymDiff(boundary_string_a[p], boundary_string_b[p])
    /\ \E p \in DOMAIN position_edits : position_edits[p].substitutions # {}

(***************************************************************************)
(* C30  Records exist for every accepted candidate: for equal-length       *)
(* inputs the difference-record mapping has, from extraction to the end of *)
(* the call, exactly the differing positions as keys (emptied records are  *)
(* kept), both positions of every candidate considered and of every        *)
(* Transposition accepted are among them, and the call never ends in       *)
(* KeyError.                                                               *)
(***************************************************************************)
C30_RecordsExist ==
    EqualLength =>
        /\ error # "KeyError"
        /\ pc # "start" =>
              DOMAIN options_set =
                 { p \in DOMAIN boundary_string_a :
                      boundary_string_a[p] # boundary_string_b[p] }
        /\ ConsidersCandidate =>
              /\ i \in DOMAIN options_set
              /\ i + n_i \in DOMAIN options_set
        /\ \A k \in 1..Len(transpositions) :
              /\ transpositions[k].start \in DOMAIN options_set
              /\ transpositions[k].end \in DOMAIN options_set

\* The call has returned two Transpositions of different labels that share
\* a position, whose record, emptied by the two, is still there.
C30_Witness ==
    /\ Returned
    /\ \E k1, k2 \in 1..Len(transpositions) :
          /\ transpositions[k1].type # transpositions[k2].type
          /\ \E p \in {transpositions[k1].start, transpositions[k1].end}
                      \cap {transpositions[k2].start, transpositions[k2].end} :
                /\ p \in DOMAIN options_set
                /\ options_set[p].sim = {}

====
